---------------------------- MODULE Spec2Model ----------------------------
(***************************************************************************)
(* State-machine model of the DC2 data collection system: the controller   *)
(* (DC2.py: DataCollectionSystem and main), and the sensor pipelines it    *)
(* runs as threads: robot (RSI.py), thermocouple (Thermocouple.py),        *)
(* microphone (Microphone.py), LEM box (LEMBox.py) and FLIR camera         *)
(* (FLIR.py).  Every action is one step of one thread between two accesses *)
(* of shared state; threads interleave freely.                             *)
(*                                                                         *)
(* Environment inputs are chosen with \E: probe results, initialization    *)
(* outcomes, device reads, socket receives, the operator's key press.      *)
(* File-system failures are modelled only where the code's handling of     *)
(* them is visible in its result (FLIRCollector.write_frame).              *)
(***************************************************************************)
EXTENDS Naturals, Integers, Sequences, FiniteSets, TLC

(***************************************************************************)
(* Bounds of the model.                                                    *)
(***************************************************************************)
\* Datagrams the robot socket delivers in one run.
MaxRobot == 1
\* Successful thermocouple reads in one run.
MaxThermo == 1
\* Frames the camera delivers in one run (small rigs).
MaxFrames == 2
\* Frames the camera delivers in one run of the burst rig: one more than
\* the queue holds, so that the producer meets a full queue.
MaxBurst == 31
\* Failed np.save calls in one run.
MaxWriteFail == 1
\* Audio callbacks delivered in one run.
MaxChunks == 2
\* Datagrams received in one run of the robot rig.
MaxDatagrams == 2
\* Socket timeouts counted in one run of the robot rig.
MaxTimeouts == 2
\* Status reports after which the clock stops while a thread is alive.
MaxReports == 2
\* Audio callbacks delivered to a recorder driven by one caller: enough for
\* a chunk to be accepted after one was refused.
MaxRefill == 49
\* Successful thermocouple reads in one run of the thermocouple rig.
MaxRows == 3
\* Consecutive failed thermocouple reads that are counted.
MaxFailures == 2
\* Advances of the clock in one run.
MaxTicks == 1
\* Audio callbacks delivered in one run of the microphone rig: enough for
\* the accepted samples to pass one second of audio.
MaxAudio == 48
\* Chunks in the buffer handed to _save_data (save runs).
MaxSaved == 3
\* Samples of one chunk (save runs).
MaxSize == 3
\* Sample periods between the arrivals of two chunks (save runs).
MaxGap == 2

(***************************************************************************)
(* Program constants.                                                      *)
(***************************************************************************)
\* Microphone.py: RATE = 48000, CHUNK = 1024.  The clock of the model counts
\* sample periods (1/RATE s), so int((t1 - t0) * RATE) is t1 - t0.
RATE == 48000
CHUNK == 1024
\* DC2.py: self.status_interval = 5 (seconds).
status_interval == 5
\* FLIR.py: queue.Queue(maxsize=30).
QueueMaxSize == 30

Sensors == {"robot", "thermocouple", "microphone", "lembox", "flir"}

\* The order in which start_collection appends the threads (DC2.py 264-274).
ThreadOrder == <<"robot", "thermocouple", "microphone", "lembox", "flir">>

\* status_interval in clock units.
StatusTicks == status_interval * RATE

\* time.time() at program start is far more than status_interval after the
\* epoch (last_status_time starts at 0).
StartOfTime == StatusTicks

VARIABLES
  \* ---- controller (DataCollectionSystem, main)
  ctl_pc,               \* position of the main thread
  active_sensors,       \* self.active_sensors, a missing key read as FALSE
  microphone_available, \* self.microphone_available (self.microphone set with it)
  output_path,          \* "None" or "dir" (directory created)
  is_collecting,        \* self.is_collecting
  stop_flag,            \* self.stop_flag (threading.Event)
  threads,              \* self.threads: sequence of sensor kinds
  next_start,           \* threads already started by the for loop (DC2.py 277)
  next_join,            \* threads already joined by stop_collection (DC2.py 294)
  last_status_time,     \* self.last_status_time
  reports,              \* times at which a status report was printed
  completion_reported,  \* "Data collection complete" was printed
  init_steps,           \* sensors for which initialize_sensors ran a step
  init_failed,          \* sensors whose initialization step failed
  started,              \* sensors for which a thread was ever started
  \* ---- clock
  now, ticks,
  probes,               \* what each probe of verify_sensors meets: "ok", "fails" or "raises"; <<>> when not recorded
  \* ---- thermocouple DAQ (ThermocoupleDAQ)
  thermocouple_daq,     \* "None" or "daq"
  daq_task,             \* "None", "open", "closed"
  daq_is_initialized,
  daq_users,            \* the threads that called a method of the DAQ task
  thermo_pc,
  thermo_rows,          \* rows written to thermocouple_data.csv
  thermo_reads,         \* successful reads
  thermo_failures,      \* failed reads since the last successful one (up to MaxFailures)
  thermo_file,          \* the lines of thermocouple_data.csv, in order
  write_start_time,     \* write_to_csv.start_time: <<>> while unset, else <<t>>
  \* ---- robot (RSI.py)
  robot_pc,
  raw_data,             \* datagrams appended to raw_data
  robot_saved,          \* rows written to robot_data.csv
  abort_requested,      \* robot_collection set the stop flag (DC2.py 182)
  robot_start_time,     \* start_time of collect_raw_data
  robot_elapsed,        \* the Elapsed_ms column of the elements of raw_data
  robot_timeouts,       \* socket timeouts of recvfrom counted in this collection
  \* ---- LEM box (LEMBoxCollector)
  lem_pc,
  lem_process,          \* "None", "running", "terminated", "killed"
  lem_events,           \* terminate / wait / kill calls, in order
  \* ---- microphone (MicrophoneRecorder)
  mic_pc,               \* microphone_collection thread
  rec_pc,               \* record_thread
  is_recording,
  stream,               \* "None", "active", "closed"
  audio_buffer,         \* the accepted chunks: [n |-> samples, ts |-> arrival time]
  sample_count,
  expected_samples,
  last_callback_time,
  callbacks,            \* callbacks delivered so far
  mic_file,             \* "none", "written", "failed"
  mic_written,          \* samples written to microphone_data.csv
  mic_rows,             \* the rows written, as runs [n |-> rows, ts |-> time of the first]
  buffer_lock,          \* self.buffer_lock: "free" or the thread that holds it
  callback_time,        \* <<current_time>> of the callback in progress, else <<>>
  last_return,          \* <<method, value>> last returned by the recorder to a caller, else <<>>
  \* ---- FLIR camera (FLIRCollector, start_flir_collection_thread)
  flir_collector,       \* "None" or "collector"
  flir_is_initialized,  \* collector.is_initialized
  camera,               \* "None", "initialized", "acquiring", "released"
  uninit_calls,         \* calls of camera.uninitialize
  flir_system,          \* collector.system: "None" or "instance"
  camera_users,         \* the threads that called a method of the camera
  flir_pc,              \* start_flir_collection_thread
  reader_pc,            \* frame_reader thread
  saver_pc,             \* save_frames thread
  frames_read,          \* frames delivered by the camera, numbered 1, 2, ...
  frame_queue,          \* collector.frame_queue
  taken,                \* frames dequeued by save_frames, in order
  flir_files,           \* flir_files[i + 1]: the frame in FLIR-Frame-i.npy
  frame_count,          \* collector.frame_count
  failed_writes,        \* frames whose np.save raised
  latest_frame,         \* collector.latest_frame: 0 for None, or the frame
  frame_lock            \* collector.frame_lock: "free" or the thread that holds it

ctlVars == <<ctl_pc, active_sensors, microphone_available, output_path, threads, next_start, next_join, last_status_time, reports, completion_reported, init_steps, init_failed, started>>

sharedVars == <<is_collecting, stop_flag>>

envVars == <<now, ticks, probes>>

daqVars == <<thermocouple_daq, daq_task, daq_is_initialized, daq_users>>

thermoVars == <<thermo_pc, thermo_rows, thermo_reads, thermo_failures, thermo_file, write_start_time>>

robotVars == <<robot_pc, raw_data, robot_saved, abort_requested, robot_start_time, robot_elapsed, robot_timeouts>>

lemVars == <<lem_pc, lem_process, lem_events>>

micVars == <<mic_pc, rec_pc, is_recording, stream, audio_buffer, sample_count, expected_samples, last_callback_time, callbacks, mic_file, mic_written, mic_rows, buffer_lock, callback_time, last_return>>

camVars == <<flir_collector, flir_is_initialized, camera, uninit_calls, flir_system, camera_users>>

flirVars == <<flir_pc, reader_pc, saver_pc, frames_read, frame_queue, taken, flir_files, frame_count, failed_writes, latest_frame, frame_lock>>

vars == <<ctlVars, sharedVars, envVars, daqVars, thermoVars, robotVars, lemVars, micVars, camVars, flirVars>>

(***************************************************************************)
(* Helpers                                                                 *)
(***************************************************************************)
\* A guard that no longer looks at the probe result.
IsActiveAlways(s) == TRUE

\* self.active_sensors.get(s)
IsActive(s) == active_sensors[s]

\* any(self.active_sensors.values())
AnyActive(act) == \E s \in Sensors : act[s]

\* The position of the pipeline thread of sensor s.
ThreadPc(s) == CASE s = "robot" -> robot_pc [] s = "thermocouple" -> thermo_pc [] s = "microphone" -> mic_pc [] s = "lembox" -> lem_pc [] OTHER -> flir_pc

\* thread.is_alive(): started and not yet finished.
IsAlive(s) == ThreadPc(s) \notin {"none", "created", "done"}

\* f"{rel_time:.6f}", Microphone.py 185: a time in sample periods written
\* in seconds with six decimals, here as the number of microseconds,
\* rounded to the nearest: (t * 1000000 + RATE / 2) div RATE, with the
\* fraction 1000000 / RATE reduced to 125 / 6.
FormatMicros(t) == (t * 125 + 3) \div 6

\* The probe outcomes explored: every set of at most two available sensors.
ProbeOutcomes == {S \in SUBSET Sensors : Cardinality(S) <= 2}

RECURSIVE SelectSeq2(_, _)
\* The subsequence of ThreadOrder (from index i on) of the sensors in S.
SelectSeq2(i, S) == IF i > Len(ThreadOrder) THEN <<>> ELSE (IF ThreadOrder[i] \in S THEN <<ThreadOrder[i]>> ELSE <<>>) \o SelectSeq2(i + 1, S)

(***************************************************************************)
(* Init: the state after DataCollectionSystem.__init__ (DC2.py 22-43).     *)
(***************************************************************************)
\* The object after __init__, and the devices and files it will work on.
ObjectInit ==
  /\ ctl_pc = "verify"
  /\ active_sensors = [s \in Sensors |-> FALSE]
  /\ microphone_available = FALSE
  /\ output_path = "None"
  /\ is_collecting = FALSE
  /\ stop_flag = FALSE
  /\ threads = <<>>
  /\ next_start = 0
  /\ next_join = 0
  /\ last_status_time = 0
  /\ reports = <<>>
  /\ completion_reported = FALSE
  /\ init_steps = {}
  /\ init_failed = {}
  /\ started = {}
  /\ now = StartOfTime
  /\ ticks = 0
  /\ thermocouple_daq = "None"
  /\ daq_task = "None"
  /\ daq_is_initialized = FALSE
  /\ daq_users = {}
  /\ thermo_pc = "none"
  /\ thermo_rows = 0
  /\ thermo_reads = 0
  /\ thermo_failures = 0
  /\ thermo_file = <<>>
  /\ robot_pc = "none"
  /\ raw_data = 0
  /\ robot_saved = 0
  /\ abort_requested = FALSE
  /\ robot_start_time = 0
  /\ robot_elapsed = <<>>
  /\ robot_timeouts = 0
  /\ lem_pc = "none"
  /\ lem_process = "None"
  /\ lem_events = <<>>
  /\ mic_pc = "none"
  /\ rec_pc = "none"
  /\ is_recording = FALSE
  /\ stream = "None"
  /\ audio_buffer = <<>>
  /\ sample_count = 0
  /\ expected_samples = 0
  /\ last_callback_time = 0
  /\ callbacks = 0
  /\ mic_file = "none"
  /\ mic_written = 0
  /\ mic_rows = <<>>
  /\ buffer_lock = "free"
  /\ callback_time = <<>>
  /\ last_return = <<>>
  /\ flir_collector = "None"
  /\ flir_is_initialized = FALSE
  /\ camera = "None"
  /\ uninit_calls = 0
  /\ flir_system = "None"
  /\ camera_users = {}
  /\ flir_pc = "none"
  /\ reader_pc = "none"
  /\ saver_pc = "none"
  /\ frames_read = 0
  /\ frame_queue = <<>>
  /\ taken = <<>>
  /\ flir_files = <<>>
  /\ frame_count = 0
  /\ failed_writes = {}
  /\ latest_frame = 0
  /\ frame_lock = "free"

\* The program started: write_to_csv has no start_time attribute yet
\* (Thermocouple.py 79).
Init == ObjectInit /\ write_start_time = <<>> /\ probes = <<>>

(***************************************************************************)
(* The controller: main, verify_sensors, prepare_collection,               *)
(* initialize_sensors, start_collection, print_status_update and           *)
(* stop_collection of DC2.py.                                              *)
(***************************************************************************)
\* Assign position v to the pipeline thread of sensor s.
SetThreadPc(s, v) ==
  /\ robot_pc' = IF s = "robot" THEN v ELSE robot_pc
  /\ thermo_pc' = IF s = "thermocouple" THEN v ELSE thermo_pc
  /\ mic_pc' = IF s = "microphone" THEN v ELSE mic_pc
  /\ lem_pc' = IF s = "lembox" THEN v ELSE lem_pc
  /\ flir_pc' = IF s = "flir" THEN v ELSE flir_pc

\* Everything of the pipelines but the positions of their threads.
pipeData == <<thermo_rows, thermo_reads, thermo_failures, thermo_file, write_start_time, raw_data, robot_saved, abort_requested, robot_start_time, robot_elapsed, robot_timeouts, lem_process, lem_events, rec_pc, is_recording, stream, audio_buffer, sample_count, expected_samples, last_callback_time, callbacks, mic_file, mic_written, mic_rows, buffer_lock, callback_time, last_return, reader_pc, saver_pc, frames_read, frame_queue, taken, flir_files, frame_count, failed_writes, latest_frame, frame_lock>>

pipeVars == <<thermoVars, robotVars, lemVars, micVars, flirVars>>

\* The first position of each thread function.
FirstPc(s) == CASE s = "robot" -> "bind" [] s = "thermocouple" -> "enter" [] s = "microphone" -> "enter" [] s = "lembox" -> "start" [] OTHER -> "run"

\* verify_sensors returning True whatever the probes found.
VerifyResultAlways(act) == TRUE

\* main, DC2.py 312-314: the value verify_sensors returns decides whether the
\* run goes on.
VerifyResult(act) == AnyActive(act)

\* verify_sensors: each probe marks its sensor available or not; the
\* microphone is available when the recorder object was built.
Verify(outcomes) ==
  /\ ctl_pc = "verify"
  /\ \E S \in outcomes :
       /\ active_sensors' = [s \in Sensors |-> s \in S]
       /\ microphone_available' = ("microphone" \in S)
       /\ ctl_pc' = IF VerifyResult([s \in Sensors |-> s \in S]) THEN "prepare" ELSE "no_sensors"
  /\ UNCHANGED <<output_path, threads, next_start, next_join, last_status_time, reports, completion_reported, init_steps, init_failed, started>>
  /\ UNCHANGED <<sharedVars, envVars, daqVars, pipeVars, camVars>>

\* The probes of verify_sensors and the two constructors whose failure
\* makes a sensor unavailable: MicrophoneRecorder() (DC2.py 66) and
\* LEMBoxCollector() (DC2.py 34-38).
ProbeNames == Sensors \cup {"recorder", "lembox_object"}

\* What a probe meets: the device answers, the probe reports failure, or
\* an exception is raised during the probe.  A constructor returns or
\* raises.
ProbeInputs == {p \in [ProbeNames -> {"ok", "fails", "raises"}] : p["recorder"] # "fails" /\ p["lembox_object"] # "fails"}

\* A verify_sensors that takes a probe that raised for a sensor found.
ProbeSucceedsUnlessFails(kind) == kind # "fails"

\* verify_sensors, DC2.py 51-59 and alike: the sensor is available when the
\* probe returned true; false and an exception (caught in verify_sensors
\* or inside the probe function) both give unavailable.
ProbeSucceeds(kind) == kind = "ok"

\* verify_sensors, DC2.py 64-68: the recorder is built after
\* check_microphone returned true, and the microphone is available when
\* the constructor returned.
RecorderBuilt(p) == ProbeSucceeds(p["microphone"]) /\ ProbeSucceeds(p["recorder"])

\* verify_sensors, DC2.py 97: self.lembox and self.lembox.check_connection().
LemboxFound(p) == ProbeSucceeds(p["lembox_object"]) /\ ProbeSucceeds(p["lembox"])

\* verify_sensors, DC2.py 49-103: the availability of every sensor.
VerifySensors(p) == [s \in Sensors |-> IF s = "microphone" THEN RecorderBuilt(p) ELSE IF s = "lembox" THEN LemboxFound(p) ELSE ProbeSucceeds(p[s])]

\* verify_sensors, DC2.py 45-105, on the recorded probe inputs.
VerifyProbes ==
  /\ ctl_pc = "verify"
  /\ active_sensors' = VerifySensors(probes)
  /\ microphone_available' = RecorderBuilt(probes)
  /\ ctl_pc' = IF VerifyResult(VerifySensors(probes)) THEN "prepare" ELSE "no_sensors"
  /\ UNCHANGED <<output_path, threads, next_start, next_join, last_status_time, reports, completion_reported, init_steps, init_failed, started>>
  /\ UNCHANGED <<sharedVars, envVars, daqVars, pipeVars, camVars>>

\* prepare_collection, DC2.py 226-237: the operator selects a directory or
\* cancels the dialog.
ChooseDirectory ==
  /\ ctl_pc = "prepare"
  /\ \E selected \in BOOLEAN :
       IF selected
         THEN output_path' = "dir" /\ ctl_pc' = "init_sensors"
         ELSE output_path' = output_path /\ ctl_pc' = "prep_failed"
  /\ UNCHANGED <<active_sensors, microphone_available, threads, next_start, next_join, last_status_time, reports, completion_reported, init_steps, init_failed, started>>
  /\ UNCHANGED <<sharedVars, envVars, daqVars, pipeVars, camVars>>

\* An initialize_sensors that runs no step.
InitOutcomesNoStep(s) == {"skip"}

\* The outcomes of the initialization step of sensor s.
InitOutcomes(s) == IF IsActive(s) THEN {"ok", "fail"} ELSE {"skip"}

\* initialize_sensors never clearing success.
InitSuccessAlways(outs) == TRUE

\* initialize_sensors: success stays True unless a step failed.
InitSuccess(outs) == "fail" \notin outs

\* initialize_sensors, called by prepare_collection (DC2.py 240-244).
\* FLIRCollector.initialize fails either because no camera is listed
\* (FLIR.py 54-56, the system instance is kept) or because a call raised
\* (FLIR.py 88-91, cleanup releases the system instance);
\* ThermocoupleDAQ.initialize fails before or after the task was made.
InitializeSensors ==
  /\ ctl_pc = "init_sensors"
  /\ \E fo \in InitOutcomes("flir"), to \in InitOutcomes("thermocouple"), taskMade \in BOOLEAN, raised \in BOOLEAN :
       LET mo == IF IsActive("microphone") THEN (IF microphone_available THEN "ok" ELSE "fail") ELSE "skip"
           out == [s \in {"flir", "thermocouple", "microphone"} |-> CASE s = "flir" -> fo [] s = "thermocouple" -> to [] OTHER -> mo]
       IN /\ (to = "fail" \/ taskMade)
          /\ (fo = "fail" \/ ~raised)
          /\ flir_system' = IF fo = "ok" \/ (fo = "fail" /\ ~raised) THEN "instance" ELSE flir_system
          /\ flir_collector' = IF fo = "skip" THEN flir_collector ELSE "collector"
          /\ flir_is_initialized' = (fo = "ok")
          /\ camera' = IF fo = "ok" THEN "initialized" ELSE camera
          /\ thermocouple_daq' = IF to = "skip" THEN thermocouple_daq ELSE "daq"
          /\ daq_task' = IF to = "ok" \/ (to = "fail" /\ taskMade) THEN "open" ELSE daq_task
          /\ daq_is_initialized' = (to = "ok")
          /\ daq_users' = IF to = "ok" \/ (to = "fail" /\ taskMade) THEN daq_users \cup {"main"} ELSE daq_users
          /\ camera_users' = IF fo = "ok" THEN camera_users \cup {"main"} ELSE camera_users
          /\ init_steps' = {s \in DOMAIN out : out[s] # "skip"}
          /\ init_failed' = {s \in DOMAIN out : out[s] = "fail"}
          /\ ctl_pc' = IF InitSuccess({fo, to, mo}) THEN "ready" ELSE "prep_failed"
  /\ UNCHANGED <<active_sensors, microphone_available, output_path, threads, next_start, next_join, last_status_time, reports, completion_reported, started>>
  /\ UNCHANGED <<sharedVars, envVars, pipeVars, uninit_calls>>

\* start_collection, DC2.py 248: hasattr(self, 'output_path'); __init__
\* assigns the attribute (DC2.py 23), so every object has it.
HasOutputPath == TRUE

\* A start_collection that goes on after a failed start of the acquisition.
AcquisitionFailedIgnored == "set_collecting"

\* start_collection, DC2.py 256-258: start_acquisition returned False:
\* report and return.
AcquisitionFailed == "start_failed"

\* start_collection, DC2.py 248-258: the test of the attribute, then clear
\* the flag and start FLIR acquisition (FLIRCollector.start_acquisition,
\* FLIR.py 93-104: False when not initialized or when the camera call
\* raised).
StartClearFlag ==
  /\ ctl_pc = "ready"
  /\ IF ~HasOutputPath
       THEN ctl_pc' = "not_prepared" /\ UNCHANGED <<stop_flag, camera, camera_users>>
       ELSE /\ stop_flag' = FALSE
            /\ IF IsActive("flir") /\ flir_collector # "None"
                 THEN /\ \E ok \in BOOLEAN :
                           IF flir_is_initialized /\ ok
                             THEN camera' = "acquiring" /\ ctl_pc' = "set_collecting"
                             ELSE camera' = camera /\ ctl_pc' = AcquisitionFailed
                      /\ camera_users' = IF flir_is_initialized THEN camera_users \cup {"main"} ELSE camera_users
                 ELSE camera' = camera /\ ctl_pc' = "set_collecting" /\ camera_users' = camera_users
  /\ UNCHANGED <<active_sensors, microphone_available, output_path, threads, next_start, next_join, last_status_time, reports, completion_reported, init_steps, init_failed, started>>
  /\ UNCHANGED <<is_collecting, envVars, daqVars, pipeVars, flir_collector, flir_is_initialized, uninit_calls, flir_system>>

\* A thread for every sensor, available or not.
ThreadSensorsAll == Sensors

\* The sensors start_collection creates a thread for (DC2.py 264-274).
ThreadSensors == {s \in Sensors : IsActive(s) /\ (s = "flir" => flir_collector # "None")}

\* start_collection, DC2.py 260-274: set is_collecting, create the threads.
StartCreateThreads ==
  /\ ctl_pc = "set_collecting"
  /\ is_collecting' = TRUE
  /\ threads' = threads \o SelectSeq2(1, ThreadSensors)
  /\ robot_pc' = IF "robot" \in ThreadSensors THEN "created" ELSE robot_pc
  /\ thermo_pc' = IF "thermocouple" \in ThreadSensors THEN "created" ELSE thermo_pc
  /\ mic_pc' = IF "microphone" \in ThreadSensors THEN "created" ELSE mic_pc
  /\ lem_pc' = IF "lembox" \in ThreadSensors THEN "created" ELSE lem_pc
  /\ flir_pc' = IF "flir" \in ThreadSensors THEN "created" ELSE flir_pc
  /\ next_start' = 0
  /\ ctl_pc' = IF ThreadSensors = {} THEN "wait" ELSE "starting"
  /\ UNCHANGED <<active_sensors, microphone_available, output_path, next_join, last_status_time, reports, completion_reported, init_steps, init_failed, started>>
  /\ UNCHANGED <<stop_flag, envVars, daqVars, camVars, pipeData>>

\* start_collection, DC2.py 277-278: start the next thread of the list.
StartThread ==
  /\ ctl_pc = "starting"
  /\ next_start < Len(threads)
  /\ SetThreadPc(threads[next_start + 1], FirstPc(threads[next_start + 1]))
  /\ started' = started \cup {threads[next_start + 1]}
  /\ next_start' = next_start + 1
  /\ ctl_pc' = IF next_start + 1 = Len(threads) THEN "wait" ELSE "starting"
  /\ UNCHANGED <<active_sensors, microphone_available, output_path, threads, next_join, last_status_time, reports, completion_reported, init_steps, init_failed>>
  /\ UNCHANGED <<sharedVars, envVars, daqVars, camVars, pipeData>>

\* A status check that takes some thread to be alive.
AnyAliveAlways == TRUE

\* any(thread.is_alive() for thread in self.threads)
AnyAlive == \E i \in 1..Len(threads) : IsAlive(threads[i])

\* No thread of self.threads is alive.
AllTerminated == \A i \in 1..Len(threads) : ~IsAlive(threads[i])

\* The wait loop, DC2.py 281-284: keyboard.is_pressed('q').
OperatorStop ==
  /\ ctl_pc = "wait"
  /\ is_collecting
  /\ ctl_pc' = "stop_set"
  /\ UNCHANGED <<active_sensors, microphone_available, output_path, threads, next_start, next_join, last_status_time, reports, completion_reported, init_steps, init_failed, started>>
  /\ UNCHANGED <<sharedVars, envVars, daqVars, camVars, pipeVars>>

\* print_status_update, called from the wait loop (DC2.py 285): when the
\* interval has elapsed, report, or clear is_collecting.
PrintStatusUpdate ==
  /\ ctl_pc = "wait"
  /\ is_collecting
  /\ now - last_status_time >= StatusTicks
  /\ IF is_collecting /\ AnyAlive
       THEN /\ reports' = Append(reports, now)
            /\ last_status_time' = now
            /\ is_collecting' = is_collecting
       ELSE /\ is_collecting' = FALSE
            /\ UNCHANGED <<reports, last_status_time>>
  /\ UNCHANGED <<ctl_pc, active_sensors, microphone_available, output_path, threads, next_start, next_join, completion_reported, init_steps, init_failed, started>>
  /\ UNCHANGED <<stop_flag, envVars, daqVars, camVars, pipeVars>>

\* The wait loop ends because is_collecting is false (DC2.py 281).
WaitExit ==
  /\ ctl_pc = "wait"
  /\ ~is_collecting
  /\ ctl_pc' = "returned"
  /\ UNCHANGED <<active_sensors, microphone_available, output_path, threads, next_start, next_join, last_status_time, reports, completion_reported, init_steps, init_failed, started>>
  /\ UNCHANGED <<sharedVars, envVars, daqVars, camVars, pipeVars>>

\* stop_collection, DC2.py 291.
StopSetFlag ==
  /\ ctl_pc = "stop_set"
  /\ stop_flag' = TRUE
  /\ ctl_pc' = "stop_clear"
  /\ UNCHANGED <<active_sensors, microphone_available, output_path, threads, next_start, next_join, last_status_time, reports, completion_reported, init_steps, init_failed, started>>
  /\ UNCHANGED <<is_collecting, envVars, daqVars, camVars, pipeVars>>

\* stop_collection, DC2.py 292.
StopClearCollecting ==
  /\ ctl_pc = "stop_clear"
  /\ is_collecting' = FALSE
  /\ next_join' = 0
  /\ ctl_pc' = "stop_join"
  /\ UNCHANGED <<active_sensors, microphone_available, output_path, threads, next_start, last_status_time, reports, completion_reported, init_steps, init_failed, started>>
  /\ UNCHANGED <<stop_flag, envVars, daqVars, camVars, pipeVars>>

\* A join that returns at once.
JoinedAtOnce(s) == TRUE

\* thread.join(), DC2.py 295: returns when the thread has ended.
Joined(s) == ThreadPc(s) = "done"

\* stop_collection, DC2.py 294-295: join the threads in order.
JoinThread ==
  /\ ctl_pc = "stop_join"
  /\ next_join < Len(threads)
  /\ Joined(threads[next_join + 1])
  /\ next_join' = next_join + 1
  /\ UNCHANGED <<ctl_pc, active_sensors, microphone_available, output_path, threads, next_start, last_status_time, reports, completion_reported, init_steps, init_failed, started>>
  /\ UNCHANGED <<sharedVars, envVars, daqVars, camVars, pipeVars>>

\* The state of the ThermocoupleDAQ object.
DaqState == [task |-> daq_task, is_initialized |-> daq_is_initialized]

\* A close that keeps the task handle.
DaqCloseKeepsTask(st) == [task |-> st.task, is_initialized |-> FALSE]

\* ThermocoupleDAQ.close, Thermocouple.py 53-58: close the task if there
\* is one and forget it ("closed": self.task is None after a close).
DaqClose(st) == [task |-> IF st.task = "open" THEN "closed" ELSE st.task, is_initialized |-> FALSE]

\* The task.close() calls that ThermocoupleDAQ.close makes in state st.
DaqCloseReleases(st) == IF st.task = "open" THEN 1 ELSE 0

\* stop_collection, DC2.py 296-305: clear the list, close the DAQ
\* (ThermocoupleDAQ.close), report completion.
StopFinish ==
  /\ ctl_pc = "stop_join"
  /\ next_join = Len(threads)
  /\ threads' = <<>>
  /\ IF thermocouple_daq # "None"
       THEN /\ daq_task' = DaqClose(DaqState).task
            /\ daq_is_initialized' = DaqClose(DaqState).is_initialized
            /\ daq_users' = IF DaqCloseReleases(DaqState) > 0 THEN daq_users \cup {"main"} ELSE daq_users
       ELSE UNCHANGED <<daq_task, daq_is_initialized, daq_users>>
  /\ completion_reported' = TRUE
  /\ ctl_pc' = "done"
  /\ UNCHANGED <<active_sensors, microphone_available, output_path, next_start, next_join, last_status_time, reports, init_steps, init_failed, started>>
  /\ UNCHANGED <<sharedVars, envVars, thermocouple_daq, camVars, pipeVars>>

\* Time passes while the collection runs: the clock advances by d.  (Before
\* the collection no difference of two clock readings is taken.)
Tick(d) ==
  /\ ctl_pc \in {"starting", "wait", "stop_set", "stop_clear", "stop_join"}
  /\ ticks < MaxTicks
  /\ now' = now + d
  /\ ticks' = ticks + 1
  /\ UNCHANGED <<probes, ctlVars, sharedVars, daqVars, camVars, pipeVars>>

\* The wait loop, DC2.py 286: time.sleep(0.1), until the status interval
\* has elapsed.  The loop looks at the clock ten times a second, so the
\* clock is taken to advance to the moment the next status check is due;
\* while a thread is alive it advances at most until MaxReports reports
\* were made.
Sleep(d) ==
  /\ ctl_pc = "wait"
  /\ is_collecting
  /\ now - last_status_time < StatusTicks
  /\ Len(reports) < MaxReports \/ AllTerminated
  /\ now' = now + d
  /\ UNCHANGED <<ticks, probes, ctlVars, sharedVars, daqVars, camVars, pipeVars>>

\* A caller invokes start_collection again on the object after
\* stop_collection has returned (DC2.py 246).
StartAgain ==
  /\ ctl_pc = "done"
  /\ ctl_pc' = "ready"
  /\ UNCHANGED <<active_sensors, microphone_available, output_path, threads, next_start, next_join, last_status_time, reports, completion_reported, init_steps, init_failed, started>>
  /\ UNCHANGED <<sharedVars, envVars, daqVars, camVars, pipeVars>>

\* A caller invokes start_collection on an object for which
\* prepare_collection never ran: output_path is None (DC2.py 23, 246).
StartUnprepared ==
  /\ ctl_pc \in {"verify", "prepare"}
  /\ output_path = "None"
  /\ ctl_pc' = "ready"
  /\ UNCHANGED <<active_sensors, microphone_available, output_path, threads, next_start, next_join, last_status_time, reports, completion_reported, init_steps, init_failed, started>>
  /\ UNCHANGED <<sharedVars, envVars, daqVars, camVars, pipeVars>>

(***************************************************************************)
(* threading.Lock, used as `with lock:` (Microphone.py 109, 131; FLIR.py   *)
(* 116, 129).                                                              *)
(***************************************************************************)
\* A `with` that enters its block without taking the lock.
AcquireNothing(lock, who) == lock

\* Entering `with lock:` waits until the lock is free.
LockFree(lock) == lock = "free"

\* Entering `with lock:`: the lock is held by the entering thread.
Acquire(lock, who) == who

\* Leaving `with lock:`: the lock is free.
Release(lock) == "free"

(***************************************************************************)
(* Robot pipeline: DataCollectionSystem.robot_collection (DC2.py 167-182)  *)
(* running RSI.start_collection / collect_raw_data / save_to_csv.          *)
(***************************************************************************)
\* An error handler that clears the event instead of setting it.
AbortSignalCleared == FALSE

\* robot_collection, DC2.py 182: self.stop_flag.set(); the state of the
\* event afterwards.
AbortSignal == TRUE

\* robot_collection, DC2.py 170: os.path.join raises when output_path is
\* None.  collect_raw_data, RSI.py 48-52: a new raw_data list, start_time,
\* open and bind the socket.  An exception in either leaves
\* start_collection and robot_collection sets the stop flag.
RobotBind ==
  /\ robot_pc = "bind"
  /\ \E ok \in {TRUE, FALSE} \ (IF output_path = "None" THEN {TRUE} ELSE {}) :
       IF ok
         THEN /\ robot_pc' = "loop"
              /\ raw_data' = 0
              /\ robot_elapsed' = <<>>
              /\ robot_timeouts' = 0
              /\ robot_start_time' = now
              /\ UNCHANGED <<stop_flag, abort_requested>>
         ELSE /\ robot_pc' = "done"
              /\ stop_flag' = AbortSignal
              /\ abort_requested' = TRUE
              /\ UNCHANGED <<raw_data, robot_elapsed, robot_start_time, robot_timeouts>>
  /\ UNCHANGED <<robot_saved, is_collecting>>
  /\ UNCHANGED <<ctlVars, envVars, daqVars, camVars, thermoVars, lemVars, micVars, flirVars>>

\* collect_raw_data, RSI.py 69, and save_to_csv, RSI.py 153: the time
\* since start_time, written in milliseconds with three decimals, here as
\* the number of microseconds.
ElapsedMs(start, t) == FormatMicros(t - start)

\* save_to_csv, RSI.py 121-166: one row for each element of raw_data.
SavedRows(n) == n

\* A save that writes nothing.
RobotSavedNone(n, saved) == saved

\* start_collection, RSI.py 227-232: if raw_data: save_to_csv(raw_data).
RobotSaved(n, saved) == IF n > 0 THEN SavedRows(n) ELSE saved

\* collect_raw_data, RSI.py 60-84, and start_collection, RSI.py 226-232:
\* one turn of the loop.  With the stop flag set the loop ends; otherwise
\* recvfrom yields a datagram (at most cap of them), a timeout, after
\* which the loop goes on (at most tcap of them are counted), or another
\* error, which ends the loop.  After the loop the data is saved.
RobotLoop(cap, tcap) ==
  /\ robot_pc = "loop"
  /\ IF stop_flag
       THEN /\ robot_saved' = RobotSaved(raw_data, robot_saved)
            /\ robot_pc' = "done"
            /\ UNCHANGED <<raw_data, robot_elapsed, robot_timeouts>>
       ELSE \/ /\ raw_data < cap
               /\ raw_data' = raw_data + 1
               /\ robot_elapsed' = Append(robot_elapsed, ElapsedMs(robot_start_time, now))
               /\ UNCHANGED <<robot_pc, robot_saved, robot_timeouts>>
            \/ /\ robot_timeouts < tcap
               /\ robot_timeouts' = robot_timeouts + 1
               /\ UNCHANGED <<robot_pc, raw_data, robot_elapsed, robot_saved>>
            \/ /\ robot_saved' = RobotSaved(raw_data, robot_saved)
               /\ robot_pc' = "done"
               /\ UNCHANGED <<raw_data, robot_elapsed, robot_timeouts>>
  /\ UNCHANGED <<abort_requested, robot_start_time>>
  /\ UNCHANGED <<ctlVars, sharedVars, envVars, daqVars, camVars, thermoVars, lemVars, micVars, flirVars>>

(***************************************************************************)
(* Thermocouple pipeline: thermocouple_collection (DC2.py 184-194),        *)
(* ThermocoupleDAQ.read and write_to_csv (Thermocouple.py).                *)
(***************************************************************************)
\* write_to_csv, Thermocouple.py 79-80: the start time is the timestamp
\* of the first call since the module was loaded.
StartTime(st, timestamp) == IF st = <<>> THEN <<timestamp>> ELSE st

\* write_to_csv, Thermocouple.py 83 and 96: the 'Relative Time (s)' column,
\* written with six decimals, here as the number of microseconds.
RelativeTime(st, timestamp) == FormatMicros(timestamp - StartTime(st, timestamp)[1])

\* The header line of thermocouple_data.csv (Thermocouple.py 89-90).
HeaderRow == [kind |-> "header", rel |-> 0, read |-> 0]

\* A writer that puts the header before every row.
NeedsHeaderAlways(file) == TRUE

\* write_to_csv, Thermocouple.py 76 and 88: the header is written when the
\* file did not exist before the call.
NeedsHeader(file) == file = <<>>

\* write_to_csv, Thermocouple.py 85-97: the file after the row of read k,
\* taken at timestamp, was appended.
WriteToCsv(file, st, timestamp, k) == file \o (IF NeedsHeader(file) THEN <<HeaderRow>> ELSE <<>>) \o <<[kind |-> "row", rel |-> RelativeTime(st, timestamp), read |-> k]>>

\* DC2.py 186-187: if not self.thermocouple_daq: return.
ThermoEnter ==
  /\ thermo_pc = "enter"
  /\ thermo_pc' = IF thermocouple_daq = "None" THEN "done" ELSE "test"
  /\ UNCHANGED <<thermo_rows, thermo_reads, thermo_failures, thermo_file, write_start_time>>
  /\ UNCHANGED <<ctlVars, sharedVars, envVars, daqVars, camVars, robotVars, lemVars, micVars, flirVars>>

\* DC2.py 189: while self.is_collecting.
ThermoLoopTest ==
  /\ thermo_pc = "test"
  /\ thermo_pc' = IF is_collecting THEN "read" ELSE "done"
  /\ UNCHANGED <<thermo_rows, thermo_reads, thermo_failures, thermo_file, write_start_time>>
  /\ UNCHANGED <<ctlVars, sharedVars, envVars, daqVars, camVars, robotVars, lemVars, micVars, flirVars>>

\* DC2.py 190-194: read; a value is appended to the file; a failed read
\* (ThermocoupleDAQ.read returns None, Thermocouple.py 42-51) writes
\* nothing and the loop goes on.  At most cap reads succeed.
ThermoRead(cap) ==
  /\ thermo_pc = "read"
  /\ \/ /\ daq_is_initialized
        /\ thermo_reads < cap
        /\ thermo_reads' = thermo_reads + 1
        /\ thermo_rows' = thermo_rows + 1
        /\ thermo_failures' = 0
        /\ thermo_file' = WriteToCsv(thermo_file, write_start_time, now, thermo_reads + 1)
        /\ write_start_time' = StartTime(write_start_time, now)
     \/ /\ UNCHANGED <<thermo_rows, thermo_reads, thermo_file, write_start_time>>
        /\ thermo_failures' = IF thermo_failures < MaxFailures THEN thermo_failures + 1 ELSE thermo_failures
  /\ daq_users' = IF daq_is_initialized THEN daq_users \cup {"thermocouple"} ELSE daq_users
  /\ thermo_pc' = "test"
  /\ UNCHANGED <<ctlVars, sharedVars, envVars, thermocouple_daq, daq_task, daq_is_initialized, camVars, robotVars, lemVars, micVars, flirVars>>

(***************************************************************************)
(* LEM box pipeline: lembox_collection (DC2.py 211-221) and                *)
(* LEMBoxCollector.start_recording / stop_recording (LEMBox.py 81-109).    *)
(***************************************************************************)
\* start_recording: Popen succeeds or raises.
LemStart ==
  /\ lem_pc = "start"
  /\ \E ok \in BOOLEAN :
       IF ok
         THEN lem_process' = "running" /\ lem_pc' = "loop"
         ELSE lem_process' = lem_process /\ lem_pc' = "done"
  /\ UNCHANGED lem_events
  /\ UNCHANGED <<ctlVars, sharedVars, envVars, daqVars, camVars, robotVars, thermoVars, micVars, flirVars>>

\* A stop that kills the process before asking it to terminate.
StopRecordingKillsFirst(process, inTime) == [process |-> "None", calls |-> IF process = "None" THEN <<>> ELSE <<"kill", "terminate", "wait_done">>]

\* LEMBoxCollector.stop_recording, LEMBox.py 97-109: with a process,
\* terminate it, wait up to 5 s, kill it if the wait timed out, and clear
\* the handle; the calls made (with the outcome of the wait) and the
\* handle afterwards.
StopRecording(process, inTime) == [process |-> "None", calls |-> IF process = "None" THEN <<>> ELSE IF inTime THEN <<"terminate", "wait_done">> ELSE <<"terminate", "wait_timeout", "kill">>]

\* XirisCamera.stop_recording, Xiris.py 48-59: the same sequence.
XirisStopRecording(process, inTime) == [process |-> "None", calls |-> IF process = "None" THEN <<>> ELSE IF inTime THEN <<"terminate", "wait_done">> ELSE <<"terminate", "wait_timeout", "kill">>]

\* DC2.py 217-221: the loop ends when is_collecting is false; then
\* stop_recording: terminate, wait up to 5 s, kill on timeout, clear the handle.
LemStop ==
  /\ lem_pc = "loop"
  /\ ~is_collecting
  /\ \E inTime \in BOOLEAN :
       /\ lem_events' = lem_events \o StopRecording(lem_process, inTime).calls
       /\ lem_process' = StopRecording(lem_process, inTime).process
  /\ lem_pc' = "done"
  /\ UNCHANGED <<ctlVars, sharedVars, envVars, daqVars, camVars, robotVars, thermoVars, micVars, flirVars>>

(***************************************************************************)
(* Microphone pipeline: microphone_collection (DC2.py 196-209) and         *)
(* MicrophoneRecorder (Microphone.py).                                     *)
(***************************************************************************)
\* A start_recording without its guard.
AlreadyRecordingNever(recording) == FALSE

\* start_recording, Microphone.py 59: if self.is_recording: return False.
AlreadyRecording(recording) == recording

\* DC2.py 198-204 and start_recording, Microphone.py 57-97.
MicEnter ==
  /\ mic_pc = "enter"
  /\ IF ~microphone_available
       THEN /\ mic_pc' = "done"
            /\ UNCHANGED <<rec_pc, is_recording, audio_buffer, sample_count, last_callback_time>>
       ELSE /\ mic_pc' = "loop"
            /\ IF AlreadyRecording(is_recording)
                 THEN UNCHANGED <<rec_pc, is_recording, audio_buffer, sample_count, last_callback_time>>
                 ELSE /\ audio_buffer' = <<>>
                      /\ is_recording' = TRUE
                      /\ sample_count' = 0
                      /\ last_callback_time' = now
                      /\ rec_pc' = "open"
  /\ UNCHANGED <<stream, expected_samples, callbacks, mic_file, mic_written, mic_rows, buffer_lock, callback_time>>
  /\ UNCHANGED <<ctlVars, sharedVars, envVars, daqVars, camVars, robotVars, thermoVars, lemVars, flirVars, last_return>>

\* MicrophoneRecorder.stop_recording, Microphone.py 191-199: when
\* recording, clear is_recording and join the record thread; the flag
\* afterwards and whether the thread is joined.
MicStopRecording(recording) == [is_recording |-> FALSE, joins |-> recording]

\* DC2.py 205-209: the loop ends when is_collecting is false; finally, if
\* the recorder is recording, stop_recording clears is_recording
\* (Microphone.py 193-197).
MicStop ==
  /\ mic_pc = "loop"
  /\ ~is_collecting
  /\ IF is_recording
       THEN is_recording' = MicStopRecording(is_recording).is_recording /\ mic_pc' = "join"
       ELSE is_recording' = is_recording /\ mic_pc' = "done"
  /\ UNCHANGED <<rec_pc, stream, audio_buffer, sample_count, expected_samples, last_callback_time, callbacks, mic_file, mic_written, mic_rows, buffer_lock, callback_time>>
  /\ UNCHANGED <<ctlVars, sharedVars, envVars, daqVars, camVars, robotVars, thermoVars, lemVars, flirVars, last_return>>

\* stop_recording, Microphone.py 198: self.record_thread.join().
MicJoin ==
  /\ mic_pc = "join"
  /\ rec_pc = "done"
  /\ mic_pc' = "done"
  /\ UNCHANGED <<rec_pc, is_recording, stream, audio_buffer, sample_count, expected_samples, last_callback_time, callbacks, mic_file, mic_written, mic_rows, buffer_lock, callback_time>>
  /\ UNCHANGED <<ctlVars, sharedVars, envVars, daqVars, camVars, robotVars, thermoVars, lemVars, flirVars, last_return>>

\* A caller invokes start_recording, Microphone.py 57-97: return False
\* when recording; else reset the buffer and the count, set is_recording,
\* take last_callback_time, create and start the record thread, return
\* True.
CallStartRecording ==
  /\ mic_pc = "idle"
  /\ IF AlreadyRecording(is_recording)
       THEN /\ last_return' = <<"start_recording", FALSE>>
            /\ UNCHANGED <<rec_pc, is_recording, audio_buffer, sample_count, last_callback_time>>
       ELSE /\ audio_buffer' = <<>>
            /\ is_recording' = TRUE
            /\ sample_count' = 0
            /\ last_callback_time' = now
            /\ rec_pc' = "open"
            /\ last_return' = <<"start_recording", TRUE>>
  /\ UNCHANGED <<mic_pc, stream, expected_samples, callbacks, mic_file, mic_written, mic_rows, buffer_lock, callback_time>>
  /\ UNCHANGED <<ctlVars, sharedVars, envVars, daqVars, camVars, robotVars, thermoVars, lemVars, flirVars>>

\* A caller invokes stop_recording, Microphone.py 191-198: return False
\* when not recording; else clear is_recording and join the record thread.
CallStopRecording ==
  /\ mic_pc = "idle"
  /\ is_recording' = IF is_recording THEN MicStopRecording(is_recording).is_recording ELSE is_recording
  /\ IF MicStopRecording(is_recording).joins
       THEN mic_pc' = "stopping" /\ last_return' = last_return
       ELSE mic_pc' = mic_pc /\ last_return' = <<"stop_recording", FALSE>>
  /\ UNCHANGED <<rec_pc, stream, audio_buffer, sample_count, expected_samples, last_callback_time, callbacks, mic_file, mic_written, mic_rows, buffer_lock, callback_time>>
  /\ UNCHANGED <<ctlVars, sharedVars, envVars, daqVars, camVars, robotVars, thermoVars, lemVars, flirVars>>

\* stop_recording, Microphone.py 198-199: the join returns, return True.
CallStopJoined ==
  /\ mic_pc = "stopping"
  /\ rec_pc = "done"
  /\ mic_pc' = "idle"
  /\ last_return' = <<"stop_recording", TRUE>>
  /\ UNCHANGED <<rec_pc, is_recording, stream, audio_buffer, sample_count, expected_samples, last_callback_time, callbacks, mic_file, mic_written, mic_rows, buffer_lock, callback_time>>
  /\ UNCHANGED <<ctlVars, sharedVars, envVars, daqVars, camVars, robotVars, thermoVars, lemVars, flirVars>>

\* record_thread, Microphone.py 70-80: open and start the stream.  When
\* audio.open raises, the finally clause reads self.stream, which was
\* never assigned, and the thread ends without _save_data.
RecOpen ==
  /\ rec_pc = "open"
  /\ \E ok \in BOOLEAN :
       IF ok
         THEN stream' = "active" /\ rec_pc' = "loop"
         ELSE stream' = stream /\ rec_pc' = "done"
  /\ UNCHANGED <<mic_pc, is_recording, audio_buffer, sample_count, expected_samples, last_callback_time, callbacks, mic_file, mic_written, mic_rows, buffer_lock, callback_time>>
  /\ UNCHANGED <<ctlVars, sharedVars, envVars, daqVars, camVars, robotVars, thermoVars, lemVars, flirVars, last_return>>

\* record_thread, Microphone.py 82-85: one turn of the supervising loop.
RecUpdateExpected ==
  /\ rec_pc = "loop"
  /\ is_recording
  /\ expected_samples # now - last_callback_time
  /\ expected_samples' = now - last_callback_time
  /\ UNCHANGED <<mic_pc, rec_pc, is_recording, stream, audio_buffer, sample_count, last_callback_time, callbacks, mic_file, mic_written, mic_rows, buffer_lock, callback_time>>
  /\ UNCHANGED <<ctlVars, sharedVars, envVars, daqVars, camVars, robotVars, thermoVars, lemVars, flirVars, last_return>>

\* A trim that keeps every sample.
TrimmedLengthAll(n, expected) == n

\* _save_data, Microphone.py 131-139: the samples kept of n accepted ones.
TrimmedLength(n, expected) == IF n > expected THEN expected ELSE n

RECURSIVE TotalSamples(_)
\* len(all_audio), Microphone.py 132-133: the samples of all chunks.
TotalSamples(buf) == IF buf = <<>> THEN 0 ELSE Head(buf).n + TotalSamples(Tail(buf))

RECURSIVE FirstSamples(_, _)
\* chunk_timestamps[:e], Microphone.py 139: the first e samples of the
\* buffer, chunk by chunk.
FirstSamples(buf, e) == IF buf = <<>> \/ e = 0 THEN <<>> ELSE <<[n |-> IF Head(buf).n < e THEN Head(buf).n ELSE e, ts |-> Head(buf).ts]>> \o FirstSamples(Tail(buf), IF Head(buf).n < e THEN e - Head(buf).n ELSE 0)

\* _save_data, Microphone.py 137-139: trim to expected_samples when longer.
Trimmed(buf, expected) == IF TotalSamples(buf) > expected THEN FirstSamples(buf, expected) ELSE buf

RECURSIVE TimestampRuns(_)
\* _save_data, Microphone.py 155-171: the loop cuts chunk_timestamps into
\* runs of equal timestamps, so consecutive chunks with the same arrival
\* time form one run.
TimestampRuns(chs) == IF Len(chs) <= 1 THEN chs ELSE IF chs[1].ts = chs[2].ts THEN TimestampRuns(<<[n |-> chs[1].n + chs[2].n, ts |-> chs[1].ts]>> \o Tail(Tail(chs))) ELSE <<chs[1]>> \o TimestampRuns(Tail(chs))

\* An interpolation that gives every sample of a run the arrival time.
LinspaceFlat(a, n) == [k \in 1..n |-> a]

\* np.linspace(a, a + (n - 1) * sample_duration, n), Microphone.py 165-169,
\* in sample periods.
Linspace(a, n) == [k \in 1..n |-> a + (k - 1)]

RECURSIVE InterpolatedTimes(_)
\* interpolated_times, Microphone.py 152-174: the times of all runs.
InterpolatedTimes(runs) == IF runs = <<>> THEN <<>> ELSE Linspace(Head(runs).ts, Head(runs).n) \o InterpolatedTimes(Tail(runs))

\* relative_times, Microphone.py 148 and 175: the times less the first
\* chunk's arrival time, the 'Relative Time (s)' column of the file.
RelativeTimes(runs) == [i \in 1..Len(InterpolatedTimes(runs)) |-> InterpolatedTimes(runs)[i] - runs[1].ts]

\* The 'Relative Time (s)' column of microphone_data.csv.
WrittenTimes(runs) == [i \in 1..Len(RelativeTimes(runs)) |-> FormatMicros(RelativeTimes(runs)[i])]

\* record_thread, Microphone.py 82 and 89-93: the loop ends when
\* is_recording is false; stop_stream returns when no callback is running
\* and the stream is closed.  _save_data, Microphone.py 124-131: return
\* when the buffer is empty, else enter `with self.buffer_lock`.
RecFinish ==
  /\ rec_pc = "loop"
  /\ ~is_recording
  /\ callback_time = <<>>
  /\ stream' = "closed"
  /\ IF audio_buffer = <<>>
       THEN rec_pc' = "done" /\ buffer_lock' = buffer_lock
       ELSE /\ LockFree(buffer_lock)
            /\ buffer_lock' = Acquire(buffer_lock, "record")
            /\ rec_pc' = "save"
  /\ UNCHANGED <<mic_pc, is_recording, audio_buffer, sample_count, expected_samples, last_callback_time, callbacks, mic_file, mic_written, mic_rows, callback_time>>
  /\ UNCHANGED <<ctlVars, sharedVars, envVars, daqVars, camVars, robotVars, thermoVars, lemVars, flirVars, last_return>>

\* _save_data, Microphone.py 131-189: the snapshot of the buffer under the
\* lock, the trim, and the file.  With no sample left after the trim,
\* np.max of the empty array raises and no file is written.
SaveData ==
  /\ rec_pc = "save"
  /\ buffer_lock' = Release(buffer_lock)
  /\ LET w == TrimmedLength(TotalSamples(audio_buffer), expected_samples)
     IN IF w = 0
          THEN mic_file' = "failed" /\ mic_written' = 0 /\ mic_rows' = <<>>
          ELSE mic_file' = "written" /\ mic_written' = w /\ mic_rows' = TimestampRuns(Trimmed(audio_buffer, expected_samples))
  /\ rec_pc' = "done"
  /\ UNCHANGED <<mic_pc, is_recording, stream, audio_buffer, sample_count, expected_samples, last_callback_time, callbacks, callback_time>>
  /\ UNCHANGED <<ctlVars, sharedVars, envVars, daqVars, camVars, robotVars, thermoVars, lemVars, flirVars, last_return>>

\* A callback that accepts every chunk.
AcceptsAlways(count, expected) == TRUE

\* _audio_callback, Microphone.py 111: the chunk is accepted.
Accepts(count, expected) == count < expected + RATE

\* _audio_callback, Microphone.py 99-109, called by the audio stream with
\* a chunk of CHUNK samples while the stream is active, one call at a
\* time: when recording, take current_time and enter
\* `with self.buffer_lock`.
AudioCallback(cap) ==
  /\ stream = "active"
  /\ callbacks < cap
  /\ callback_time = <<>>
  /\ is_recording
  /\ LockFree(buffer_lock)
  /\ callbacks' = callbacks + 1
  /\ callback_time' = <<now>>
  /\ buffer_lock' = Acquire(buffer_lock, "callback")
  /\ UNCHANGED <<mic_pc, rec_pc, is_recording, stream, audio_buffer, sample_count, expected_samples, last_callback_time, mic_file, mic_written, mic_rows>>
  /\ UNCHANGED <<ctlVars, sharedVars, envVars, daqVars, camVars, robotVars, thermoVars, lemVars, flirVars, last_return>>

\* _audio_callback, Microphone.py 110-120: inside the lock, append the
\* chunk with its time if it is accepted; leave the lock and return.
CallbackAppend ==
  /\ callback_time # <<>>
  /\ IF Accepts(sample_count, expected_samples)
       THEN /\ audio_buffer' = Append(audio_buffer, [n |-> CHUNK, ts |-> callback_time[1]])
            /\ sample_count' = sample_count + CHUNK
       ELSE UNCHANGED <<audio_buffer, sample_count>>
  /\ buffer_lock' = Release(buffer_lock)
  /\ callback_time' = <<>>
  /\ UNCHANGED <<mic_pc, rec_pc, is_recording, stream, expected_samples, last_callback_time, callbacks, mic_file, mic_written, mic_rows>>
  /\ UNCHANGED <<ctlVars, sharedVars, envVars, daqVars, camVars, robotVars, thermoVars, lemVars, flirVars, last_return>>

(***************************************************************************)
(* FLIR pipeline: start_flir_collection_thread, frame_reader and           *)
(* FLIRCollector.read_frame / save_frames / write_frame / cleanup          *)
(* (FLIR.py).                                                              *)
(***************************************************************************)
\* start_flir_collection_thread, FLIR.py 206-211: start both threads.
FlirRun ==
  /\ flir_pc = "run"
  /\ reader_pc' = "loop"
  /\ saver_pc' = "get"
  /\ flir_pc' = "join_read"
  /\ UNCHANGED <<frames_read, frame_queue, taken, flir_files, frame_count, failed_writes, latest_frame, frame_lock>>
  /\ UNCHANGED <<ctlVars, sharedVars, envVars, daqVars, camVars, robotVars, thermoVars, lemVars, micVars>>

\* FLIR.py 213-214: read_thread.join(); collector.is_initialized = False.
FlirJoinRead ==
  /\ flir_pc = "join_read"
  /\ reader_pc = "done"
  /\ flir_is_initialized' = FALSE
  /\ flir_pc' = "join_save"
  /\ UNCHANGED <<reader_pc, saver_pc, frames_read, frame_queue, taken, flir_files, frame_count, failed_writes, latest_frame, frame_lock>>
  /\ UNCHANGED <<flir_collector, camera, uninit_calls, flir_system, camera_users>>
  /\ UNCHANGED <<ctlVars, sharedVars, envVars, daqVars, robotVars, thermoVars, lemVars, micVars>>

\* cleanup, FLIR.py 160-164: the camera is uninitialized when the collector
\* still counts as initialized.
CleanupUninitializes(cam, initialized) == cam # "None" /\ initialized

\* The state of the FLIRCollector object that cleanup works on.
FlirState == [camera |-> camera, is_initialized |-> flir_is_initialized, system |-> flir_system]

\* FLIRCollector.cleanup, FLIR.py 158-170: uninitialize the camera if the
\* collector counts as initialized, clear is_initialized if there is a
\* camera object, release the system instance if there is one.
Cleanup(st) == [camera |-> IF CleanupUninitializes(st.camera, st.is_initialized) THEN "released" ELSE st.camera, is_initialized |-> IF st.camera # "None" THEN FALSE ELSE st.is_initialized, system |-> "None"]

\* The camera.uninitialize() and system.ReleaseInstance() calls that
\* cleanup makes in state st.
CleanupReleases(st) == (IF CleanupUninitializes(st.camera, st.is_initialized) THEN 1 ELSE 0) + (IF st.system # "None" THEN 1 ELSE 0)

\* FLIR.py 215-217: save_thread.join(); finally: collector.cleanup().
FlirJoinSave ==
  /\ flir_pc = "join_save"
  /\ saver_pc = "done"
  /\ camera' = Cleanup(FlirState).camera
  /\ flir_is_initialized' = Cleanup(FlirState).is_initialized
  /\ flir_system' = Cleanup(FlirState).system
  /\ uninit_calls' = uninit_calls + (IF CleanupUninitializes(camera, flir_is_initialized) THEN 1 ELSE 0)
  /\ camera_users' = IF CleanupUninitializes(camera, flir_is_initialized) THEN camera_users \cup {"flir"} ELSE camera_users
  /\ flir_pc' = "done"
  /\ UNCHANGED <<reader_pc, saver_pc, frames_read, frame_queue, taken, flir_files, frame_count, failed_writes, latest_frame, frame_lock>>
  /\ UNCHANGED flir_collector
  /\ UNCHANGED <<ctlVars, sharedVars, envVars, daqVars, robotVars, thermoVars, lemVars, micVars>>

\* frame_reader, FLIR.py 199-200, and read_frame, FLIR.py 108-116: with the
\* stop flag set the loop ends; otherwise the camera delivers a frame (at
\* most cap of them) and the reader enters `with self.frame_lock`, or
\* get_frame raises or the collector is not initialized, and the loop
\* goes on.
ReadFrame(cap) ==
  /\ reader_pc = "loop"
  /\ IF stop_flag
       THEN reader_pc' = "done" /\ UNCHANGED <<frames_read, frame_lock>>
       ELSE \/ /\ flir_is_initialized
               /\ frames_read < cap
               /\ LockFree(frame_lock)
               /\ frames_read' = frames_read + 1
               /\ frame_lock' = Acquire(frame_lock, "reader")
               /\ reader_pc' = "slot"
            \/ UNCHANGED <<frames_read, reader_pc, frame_lock>>
  /\ camera_users' = IF ~stop_flag /\ flir_is_initialized THEN camera_users \cup {"reader"} ELSE camera_users
  /\ UNCHANGED <<flir_pc, saver_pc, frame_queue, taken, flir_files, frame_count, failed_writes, latest_frame>>
  /\ UNCHANGED <<ctlVars, sharedVars, envVars, daqVars, flir_collector, flir_is_initialized, camera, uninit_calls, flir_system, robotVars, thermoVars, lemVars, micVars>>

\* read_frame, FLIR.py 116-117: inside the lock, store the frame in the
\* latest-frame slot; leave the lock.
StoreLatest ==
  /\ reader_pc = "slot"
  /\ latest_frame' = frames_read
  /\ frame_lock' = Release(frame_lock)
  /\ reader_pc' = "put"
  /\ UNCHANGED <<flir_pc, saver_pc, frames_read, frame_queue, taken, flir_files, frame_count, failed_writes>>
  /\ UNCHANGED <<ctlVars, sharedVars, envVars, daqVars, camVars, robotVars, thermoVars, lemVars, micVars>>

\* A queue built without maxsize: put never waits.
CanPutAlways(q) == TRUE

\* Queue.put without a timeout waits while the queue is full.
CanPut(q) == Len(q) < QueueMaxSize

\* read_frame, FLIR.py 120: self.frame_queue.put((image_result, timestamp)).
PutFrame ==
  /\ reader_pc = "put"
  /\ CanPut(frame_queue)
  /\ frame_queue' = Append(frame_queue, frames_read)
  /\ reader_pc' = "loop"
  /\ UNCHANGED <<flir_pc, saver_pc, frames_read, taken, flir_files, frame_count, failed_writes, latest_frame, frame_lock>>
  /\ UNCHANGED <<ctlVars, sharedVars, envVars, daqVars, camVars, robotVars, thermoVars, lemVars, micVars>>

\* A writer that names every file FLIR-Frame-0.npy.
SaveFileFirstIndex(files, idx, f) == IF files = <<>> THEN <<f>> ELSE [files EXCEPT ![1] = f]

\* np.save to FLIR-Frame-<idx>.npy: the file of index idx holds frame f.
SaveFile(files, idx, f) == IF idx < Len(files) THEN [files EXCEPT ![idx + 1] = f] ELSE Append(files, f)

\* The frame get() returns: the oldest of the queue.
NextFrame(q) == Head(q)

\* The queue after get().
AfterGet(q) == Tail(q)

\* save_frames, FLIR.py 136-138: get(timeout=1) returns the oldest frame,
\* which write_frame (FLIR.py 143-156) saves, or fails to save; or get
\* raises queue.Empty when the queue stayed empty.
GetFrame ==
  /\ saver_pc = "get"
  /\ IF frame_queue # <<>>
       THEN /\ frame_queue' = AfterGet(frame_queue)
            /\ taken' = Append(taken, NextFrame(frame_queue))
            /\ \/ /\ flir_files' = SaveFile(flir_files, frame_count, NextFrame(frame_queue))
                  /\ frame_count' = frame_count + 1
                  /\ failed_writes' = failed_writes
               \/ /\ Cardinality(failed_writes) < MaxWriteFail
                  /\ failed_writes' = failed_writes \cup {NextFrame(frame_queue)}
                  /\ UNCHANGED <<flir_files, frame_count>>
            /\ saver_pc' = saver_pc
       ELSE /\ saver_pc' = "empty"
            /\ UNCHANGED <<frame_queue, taken, flir_files, frame_count, failed_writes>>
  /\ UNCHANGED <<flir_pc, reader_pc, frames_read, latest_frame, frame_lock>>
  /\ UNCHANGED <<ctlVars, sharedVars, envVars, daqVars, camVars, robotVars, thermoVars, lemVars, micVars>>

\* save_frames, FLIR.py 139-141: except queue.Empty: leave the loop when
\* the collector is no longer initialized.
SaverEmpty ==
  /\ saver_pc = "empty"
  /\ saver_pc' = IF ~flir_is_initialized THEN "done" ELSE "get"
  /\ UNCHANGED <<flir_pc, reader_pc, frames_read, frame_queue, taken, flir_files, frame_count, failed_writes, latest_frame, frame_lock>>
  /\ UNCHANGED <<ctlVars, sharedVars, envVars, daqVars, camVars, robotVars, thermoVars, lemVars, micVars>>

(***************************************************************************)
(* Specifications                                                          *)
(***************************************************************************)
\* The steps of the main thread, but the operator's key press.
ControllerStep == ChooseDirectory \/ InitializeSensors \/ StartClearFlag \/ StartCreateThreads \/ StartThread \/ PrintStatusUpdate \/ WaitExit \/ StopSetFlag \/ StopClearCollecting \/ JoinThread \/ StopFinish

RobotStep == RobotBind \/ RobotLoop(MaxRobot, 0)

ThermoStep == ThermoEnter \/ ThermoLoopTest \/ ThermoRead(MaxThermo)

LemStep == LemStart \/ LemStop

MicStep == MicEnter \/ MicStop \/ MicJoin \/ RecOpen \/ RecUpdateExpected \/ RecFinish \/ SaveData \/ CallbackAppend

FlirStep == FlirRun \/ FlirJoinRead \/ FlirJoinSave \/ StoreLatest \/ PutFrame \/ GetFrame \/ SaverEmpty

\* A whole run of main, with any set of at most two sensors available.
Next ==
  \/ Verify(ProbeOutcomes)
  \/ ControllerStep
  \/ OperatorStop
  \/ Tick(StatusTicks)
  \/ RobotStep
  \/ ThermoStep
  \/ LemStep
  \/ MicStep
  \/ AudioCallback(MaxChunks)
  \/ FlirStep
  \/ ReadFrame(MaxFrames)

Spec == Init /\ [][Next]_vars

\* The run of a rig with the FLIR camera alone, the camera delivering up
\* to MaxBurst frames: more than the queue holds.
NextBurst ==
  \/ Verify({{"flir"}})
  \/ ChooseDirectory
  \/ InitializeSensors
  \/ StartClearFlag
  \/ StartCreateThreads
  \/ StartThread
  \/ PrintStatusUpdate
  \/ OperatorStop
  \/ StopSetFlag
  \/ StopClearCollecting
  \/ JoinThread
  \/ StopFinish
  \/ FlirStep
  \/ ReadFrame(MaxBurst)

SpecBurst == Init /\ [][NextBurst]_vars

\* The run of a rig with the robot and the thermocouple DAQ.
NextAbort ==
  \/ Verify({{"robot", "thermocouple"}})
  \/ ChooseDirectory
  \/ InitializeSensors
  \/ StartClearFlag
  \/ StartCreateThreads
  \/ StartThread
  \/ PrintStatusUpdate
  \/ OperatorStop
  \/ StopSetFlag
  \/ StopClearCollecting
  \/ JoinThread
  \/ StopFinish
  \/ Tick(StatusTicks)
  \/ RobotStep
  \/ ThermoStep

\* The main thread always takes its next step, except that the operator
\* need not press the key.
MainThreadStep == ChooseDirectory \/ InitializeSensors \/ StartClearFlag \/ StartCreateThreads \/ StartThread \/ PrintStatusUpdate \/ StopSetFlag \/ StopClearCollecting \/ JoinThread \/ StopFinish

\* Every started thread is scheduled again and again (OS threads), and
\* device calls return.
AbortFairness == WF_vars(MainThreadStep) /\ WF_vars(RobotStep) /\ WF_vars(ThermoStep)

AbortSpec == Init /\ [][NextAbort]_vars /\ AbortFairness

\* The run of a rig with the microphone alone, the stream delivering up to
\* MaxAudio chunks and the clock advancing by the duration of a chunk.
NextAudio ==
  \/ Verify({{"microphone"}})
  \/ ChooseDirectory
  \/ InitializeSensors
  \/ StartClearFlag
  \/ StartCreateThreads
  \/ StartThread
  \/ PrintStatusUpdate
  \/ OperatorStop
  \/ StopSetFlag
  \/ StopClearCollecting
  \/ JoinThread
  \/ StopFinish
  \/ Tick(CHUNK)
  \/ MicStep
  \/ AudioCallback(MaxAudio)

SpecAudio == Init /\ [][NextAudio]_vars

\* The run of a rig with the robot alone, with up to MaxDatagrams datagrams
\* and MaxTimeouts counted timeouts.
NextRobot ==
  \/ Verify({{"robot"}})
  \/ ChooseDirectory
  \/ InitializeSensors
  \/ StartClearFlag
  \/ StartCreateThreads
  \/ StartThread
  \/ PrintStatusUpdate
  \/ WaitExit
  \/ OperatorStop
  \/ StopSetFlag
  \/ StopClearCollecting
  \/ JoinThread
  \/ StopFinish
  \/ Tick(StatusTicks)
  \/ RobotBind
  \/ RobotLoop(MaxDatagrams, MaxTimeouts)

SpecRobot == Init /\ [][NextRobot]_vars

\* The run of a rig with the robot alone in which the operator never
\* presses 'q': the main thread keeps running its wait loop and time
\* passes.
NextIdle ==
  \/ Verify({{"robot"}})
  \/ ChooseDirectory
  \/ InitializeSensors
  \/ StartClearFlag
  \/ StartCreateThreads
  \/ StartThread
  \/ PrintStatusUpdate
  \/ WaitExit
  \/ Sleep(StatusTicks)
  \/ RobotBind
  \/ RobotLoop(MaxDatagrams, MaxTimeouts)

WaitLoopStep == PrintStatusUpdate \/ WaitExit

IdleFairness == WF_vars(WaitLoopStep) /\ WF_vars(Sleep(StatusTicks))

SpecIdle == Init /\ [][NextIdle]_vars /\ IdleFairness

\* The run of a rig with the thermocouple DAQ alone, with up to MaxRows
\* successful reads.
NextThermo ==
  \/ Verify({{"thermocouple"}})
  \/ ChooseDirectory
  \/ InitializeSensors
  \/ StartClearFlag
  \/ StartCreateThreads
  \/ StartThread
  \/ PrintStatusUpdate
  \/ OperatorStop
  \/ StopSetFlag
  \/ StopClearCollecting
  \/ JoinThread
  \/ StopFinish
  \/ Tick(StatusTicks)
  \/ ThermoEnter
  \/ ThermoLoopTest
  \/ ThermoRead(MaxRows)

SpecThermo == Init /\ [][NextThermo]_vars

\* The object in a process that may have run a session before: the
\* start_time attribute of write_to_csv is unset, or holds the time of the
\* first row of the earlier session (Thermocouple.py 79-80).
InitCalls == ObjectInit /\ write_start_time \in {<<>>, <<StartOfTime - StatusTicks>>} /\ probes = <<>>

\* The rig with the robot and the thermocouple DAQ, driven by a caller
\* that runs main's sequence, but may also call start_collection before
\* prepare_collection, or again after stop_collection.
NextCalls ==
  \/ Verify({{"robot", "thermocouple"}})
  \/ ChooseDirectory
  \/ InitializeSensors
  \/ StartUnprepared
  \/ StartClearFlag
  \/ StartCreateThreads
  \/ StartThread
  \/ PrintStatusUpdate
  \/ WaitExit
  \/ OperatorStop
  \/ StopSetFlag
  \/ StopClearCollecting
  \/ JoinThread
  \/ StopFinish
  \/ StartAgain
  \/ Tick(StatusTicks)
  \/ RobotStep
  \/ ThermoStep

SpecCalls == InitCalls /\ [][NextCalls]_vars

\* A MicrophoneRecorder in the hands of one caller thread, which calls
\* start_recording and stop_recording in any order while the collection
\* runs.
InitRecorder ==
  /\ ctl_pc = "wait"
  /\ active_sensors = [s \in Sensors |-> s = "microphone"]
  /\ microphone_available = TRUE
  /\ output_path = "dir"
  /\ is_collecting = TRUE
  /\ stop_flag = FALSE
  /\ threads = <<"microphone">>
  /\ next_start = 1
  /\ next_join = 0
  /\ last_status_time = 0
  /\ reports = <<>>
  /\ completion_reported = FALSE
  /\ init_steps = {"microphone"}
  /\ init_failed = {}
  /\ started = {"microphone"}
  /\ now = StartOfTime
  /\ ticks = 0
  /\ thermocouple_daq = "None"
  /\ daq_task = "None"
  /\ daq_is_initialized = FALSE
  /\ daq_users = {}
  /\ thermo_pc = "none"
  /\ thermo_rows = 0
  /\ thermo_reads = 0
  /\ thermo_failures = 0
  /\ thermo_file = <<>>
  /\ robot_pc = "none"
  /\ raw_data = 0
  /\ robot_saved = 0
  /\ abort_requested = FALSE
  /\ robot_start_time = 0
  /\ robot_elapsed = <<>>
  /\ robot_timeouts = 0
  /\ lem_pc = "none"
  /\ lem_process = "None"
  /\ lem_events = <<>>
  /\ mic_pc = "idle"
  /\ rec_pc = "none"
  /\ is_recording = FALSE
  /\ stream = "None"
  /\ audio_buffer = <<>>
  /\ sample_count = 0
  /\ expected_samples = 0
  /\ last_callback_time = 0
  /\ callbacks = 0
  /\ mic_file = "none"
  /\ mic_written = 0
  /\ mic_rows = <<>>
  /\ buffer_lock = "free"
  /\ callback_time = <<>>
  /\ last_return = <<>>
  /\ flir_collector = "None"
  /\ flir_is_initialized = FALSE
  /\ camera = "None"
  /\ uninit_calls = 0
  /\ flir_system = "None"
  /\ camera_users = {}
  /\ flir_pc = "none"
  /\ reader_pc = "none"
  /\ saver_pc = "none"
  /\ frames_read = 0
  /\ frame_queue = <<>>
  /\ taken = <<>>
  /\ flir_files = <<>>
  /\ frame_count = 0
  /\ failed_writes = {}
  /\ latest_frame = 0
  /\ frame_lock = "free"
  /\ write_start_time = <<>>
  /\ probes = <<>>

NextRecorder ==
  \/ CallStartRecording
  \/ CallStopRecording
  \/ CallStopJoined
  \/ RecOpen
  \/ RecUpdateExpected
  \/ RecFinish
  \/ SaveData
  \/ AudioCallback(MaxChunks)
  \/ CallbackAppend
  \/ Tick(StatusTicks)

SpecRecorder == InitRecorder /\ [][NextRecorder]_vars

\* One recording of the recorder that its caller does not stop, with up to
\* MaxRefill callbacks and a clock that advances by the duration of one
\* chunk.
NextRefill ==
  \/ CallStartRecording
  \/ RecOpen
  \/ RecUpdateExpected
  \/ AudioCallback(MaxRefill)
  \/ CallbackAppend
  \/ Tick(CHUNK)

SpecRefill == InitRecorder /\ [][NextRefill]_vars

\* verify_sensors on every combination of probe inputs, and the choice of
\* the directory that follows when a sensor was found.
InitVerify == ObjectInit /\ write_start_time = <<>> /\ probes \in ProbeInputs

NextVerify == VerifyProbes \/ ChooseDirectory

SpecVerify == InitVerify /\ [][NextVerify]_vars

RECURSIVE ArrivalTime(_, _)
\* The arrival time of chunk i when chunk 1 arrives at StartOfTime and
\* gaps[j] sample periods lie between chunk j - 1 and chunk j.
ArrivalTime(gaps, i) == IF i = 1 THEN StartOfTime ELSE ArrivalTime(gaps, i - 1) + gaps[i]

\* _save_data on any buffer: the run of a microphone rig at the moment
\* stop_recording has cleared is_recording (Microphone.py 197), with any
\* buffer of up to MaxSaved chunks of 1..MaxSize samples whose arrival
\* times do not decrease (time.perf_counter), and any expected_samples.
InitSave ==
  /\ ctl_pc = "stop_join"
  /\ active_sensors = [s \in Sensors |-> s = "microphone"]
  /\ microphone_available = TRUE
  /\ output_path = "dir"
  /\ is_collecting = FALSE
  /\ stop_flag = TRUE
  /\ threads = <<"microphone">>
  /\ next_start = 1
  /\ next_join = 0
  /\ last_status_time = 0
  /\ reports = <<>>
  /\ completion_reported = FALSE
  /\ init_steps = {"microphone"}
  /\ init_failed = {}
  /\ started = {"microphone"}
  /\ ticks = 0
  /\ thermocouple_daq = "None"
  /\ daq_task = "None"
  /\ daq_is_initialized = FALSE
  /\ daq_users = {}
  /\ thermo_pc = "none"
  /\ thermo_rows = 0
  /\ thermo_reads = 0
  /\ thermo_failures = 0
  /\ thermo_file = <<>>
  /\ robot_pc = "none"
  /\ raw_data = 0
  /\ robot_saved = 0
  /\ abort_requested = FALSE
  /\ robot_start_time = 0
  /\ robot_elapsed = <<>>
  /\ robot_timeouts = 0
  /\ lem_pc = "none"
  /\ lem_process = "None"
  /\ lem_events = <<>>
  /\ write_start_time = <<>>
  /\ probes = <<>>
  /\ mic_pc = "join"
  /\ rec_pc = "loop"
  /\ is_recording = FALSE
  /\ stream = "active"
  /\ \E k \in 1..MaxSaved :
       \E sizes \in [1..k -> 1..MaxSize], gaps \in [1..k -> 0..MaxGap] :
         /\ audio_buffer = [i \in 1..k |-> [n |-> sizes[i], ts |-> ArrivalTime(gaps, i)]]
         /\ callbacks = k
         /\ now = ArrivalTime(gaps, k)
  /\ sample_count = TotalSamples(audio_buffer)
  /\ expected_samples \in 0..(sample_count + 1)
  /\ last_callback_time = StartOfTime
  /\ mic_file = "none"
  /\ mic_written = 0
  /\ mic_rows = <<>>
  /\ buffer_lock = "free"
  /\ callback_time = <<>>
  /\ last_return = <<>>
  /\ flir_collector = "None"
  /\ flir_is_initialized = FALSE
  /\ camera = "None"
  /\ uninit_calls = 0
  /\ flir_system = "None"
  /\ camera_users = {}
  /\ flir_pc = "none"
  /\ reader_pc = "none"
  /\ saver_pc = "none"
  /\ frames_read = 0
  /\ frame_queue = <<>>
  /\ taken = <<>>
  /\ flir_files = <<>>
  /\ frame_count = 0
  /\ failed_writes = {}
  /\ latest_frame = 0
  /\ frame_lock = "free"

\* The record thread saves, stop_recording and stop_collection complete.
NextSave == RecFinish \/ SaveData \/ MicJoin \/ JoinThread \/ StopFinish

SpecSave == InitSave /\ [][NextSave]_vars

(***************************************************************************)
(* Properties                                                              *)
(***************************************************************************)
\* The frames numbered a..b, in order.
Frames(a, b) == [i \in 1..(b - a + 1) |-> a + i - 1]

\* The elements of a sequence.
Range(q) == {q[i] : i \in 1..Len(q)}

RECURSIVE Without(_, _)
\* Sequence q without the elements of S.
Without(q, S) == IF q = <<>> THEN <<>> ELSE (IF Head(q) \in S THEN <<>> ELSE <<Head(q)>>) \o Without(Tail(q), S)

\* No thread of sensor s exists: neither its pipeline thread nor a thread
\* the pipeline starts.
NoThread(s) ==
  /\ ThreadPc(s) = "none"
  /\ s \notin Range(threads)
  /\ s \notin started
  /\ s = "microphone" => rec_pc = "none"
  /\ s = "flir" => reader_pc = "none" /\ saver_pc = "none"

\* C1: a sensor that verify_sensors marked unavailable gets no
\* initialization step in initialize_sensors, and no pipeline thread is
\* created or started for it in start_collection.
C1_UnavailableSensorUnused == \A s \in Sensors : ~active_sensors[s] => s \notin init_steps /\ NoThread(s)

\* A run that is collecting with one sensor initialized and started and
\* another one unavailable.
C1_Witness == ctl_pc = "wait" /\ active_sensors["thermocouple"] /\ "thermocouple" \in init_steps /\ thermo_pc = "read" /\ ~active_sensors["flir"]

\* C2: once the robot pipeline has requested a global abort, the controller
\* eventually runs the stop sequence of stop_collection (is_collecting
\* cleared, threads joined, completion reported) and no pipeline thread
\* stays alive.
C2_AbortLeadsToStop == abort_requested ~> (completion_reported /\ ~is_collecting /\ \A s \in Sensors : ~IsAlive(s))

\* C3: once the stop flag is set during collection, by the controller or
\* by a pipeline, every pipeline thread that is alive eventually terminates.
C3_FlagStopsEveryThread == \A s \in Sensors : (stop_flag /\ IsAlive(s)) ~> ~IsAlive(s)

\* C4: once stop_collection has returned, every sample a pipeline captured
\* is in its output: every datagram received is a row of the robot file,
\* every thermocouple read is a row, every audio sample the callback
\* accepted is written, and every frame put in the FLIR queue is in a frame
\* file (unless np.save itself raised for it).
C4_NothingCapturedIsLost ==
  ctl_pc = "done" =>
    /\ robot_saved = raw_data
    /\ thermo_rows = thermo_reads
    /\ mic_written = sample_count
    /\ \A f \in 1..frames_read : f \in Range(flir_files) \/ f \in failed_writes

\* C5: when the FLIR pipeline has ended, the N frames put in the queue have
\* been dequeued once each in production order and are persisted in that
\* order, each once (a frame for which np.save raised is set aside).
C5_AllFramesPersistedInOrder ==
  flir_pc = "done" =>
    /\ taken = Frames(1, frames_read)
    /\ flir_files = Without(Frames(1, frames_read), failed_writes)

\* C6: the consumer thread save_frames has ended only if the producer has
\* stopped and the queue is empty.
C6_ConsumerEndsOnEmptyQueue == saver_pc = "done" => reader_pc = "done" /\ frame_queue = <<>>

\* The frame the producer holds before it is in the queue, if any.
InHand == IF reader_pc \in {"slot", "put"} THEN 1 ELSE 0

\* C7: the frame queue never holds more than 30 frames; a push that meets a
\* full queue waits and drops nothing (every frame read is in the queue,
\* was dequeued, or is held by the waiting producer, in order); and while
\* the producer waits on a full queue the consumer has not ended and its
\* next step takes a frame.
C7_BoundedQueueNoDropNoDeadlock ==
  /\ Len(frame_queue) <= 30
  /\ taken \o frame_queue = Frames(1, frames_read - InHand)
  /\ (reader_pc = "put" /\ Len(frame_queue) = 30) => (saver_pc \in {"get", "empty"} /\ (saver_pc = "empty" => flir_is_initialized))

\* The producer waits in put on a full queue.
C7_Witness == reader_pc = "put" /\ Len(frame_queue) = 30 /\ frames_read = 31

\* C8: when start_collection has returned after the wait loop, the stop
\* flag is set, every started thread has been joined and the thermocouple
\* DAQ is closed.
C8_LeavesCollectingStopped ==
  ctl_pc \in {"returned", "done"} =>
    /\ stop_flag
    /\ next_join = Cardinality(started)
    /\ thermocouple_daq # "None" => daq_task = "closed"

\* C9: if an available sensor failed to initialize, prepare_collection has
\* returned failure and main has ended: is_collecting is false and no
\* thread exists.
C9_InitFailureAborts == init_failed # {} => ctl_pc = "prep_failed" /\ ~is_collecting /\ \A s \in Sensors : NoThread(s)

\* The thermocouple failed to initialize while another sensor was available
\* and, if it has an initialization step, initialized.
C9_Witness == init_failed = {"thermocouple"} /\ ctl_pc = "prep_failed" /\ active_sensors["flir"] /\ flir_is_initialized

\* C10: if the probe found no sensor, main has ended with the 'no sensors
\* detected' report: prepare_collection was not invoked, no output
\* directory exists, no sensor was initialized, no thread exists.
C10_NoSensorsAborts == (ctl_pc # "verify" /\ ~AnyActive(active_sensors)) => ctl_pc = "no_sensors" /\ output_path = "None" /\ init_steps = {} /\ ~is_collecting /\ \A s \in Sensors : NoThread(s)

\* The probe has run and found nothing.
C10_Witness == ctl_pc = "no_sensors" /\ ~AnyActive(active_sensors)

\* The record streams present in the output directory: robot_data.csv is
\* written by save_to_csv when raw_data is not empty (RSI.py 227-231),
\* thermocouple_data.csv is created by the first row written
\* (Thermocouple.py 85), microphone_data.csv by _save_data (Microphone.py
\* 175), the FLIR frame files by write_frame (FLIR.py 151), and
\* lembox_data.csv is the argument of the LEMBOX.exe process (LEMBox.py 86).
OutputFiles ==
  {s \in Sensors :
     \/ s = "robot" /\ robot_saved > 0
     \/ s = "thermocouple" /\ thermo_rows > 0
     \/ s = "microphone" /\ mic_file = "written"
     \/ s = "lembox" /\ (lem_process # "None" \/ lem_events # <<>>)
     \/ s = "flir" /\ flir_files # <<>>}

\* The rig with the robot and the thermocouple and nothing else.
RobotThermoRig == \A s \in Sensors : active_sensors[s] <=> s \in {"robot", "thermocouple"}

C12_FlagNeverReset == [][(stop_flag => stop_flag') /\ ((ctl_pc = "ready" /\ ctl_pc' # "ready") => (~stop_flag' /\ started = {} /\ threads = <<>>))]_vars

\* The flag was set by the robot pipeline and again by stop_collection
\* while the thermocouple thread is alive.
C12_Witness == stop_flag /\ abort_requested /\ ctl_pc = "stop_clear" /\ IsAlive("thermocouple")


\* The arrival times of the chunks of the buffer increase strictly.
StrictArrivals == \A i \in 1..(Len(audio_buffer) - 1) : audio_buffer[i].ts < audio_buffer[i + 1].ts

\* The samples of the chunks before chunk i.
SamplesBefore(i) == TotalSamples(SubSeq(audio_buffer, 1, i - 1))

\* The samples of chunk i that are in the file.
WrittenOf(i) == IF mic_written <= SamplesBefore(i) THEN 0 ELSE IF mic_written - SamplesBefore(i) < audio_buffer[i].n THEN mic_written - SamplesBefore(i) ELSE audio_buffer[i].n

\* The samples at positions p + 1 .. p + w of the reconstructed times T
\* do not decrease and span exactly from t to t + (w - 1) sample periods.
SpansExactly(T, p, w, t) == p + w <= Len(T) /\ T[p + 1] = t /\ T[p + w] = t + (w - 1) /\ \A k \in 1..(w - 1) : T[p + k] <= T[p + k + 1]

C14_RelativeTimesMonotonic == mic_file = "written" => (WrittenTimes(mic_rows)[1] = 0 /\ \A i \in 1..(Len(WrittenTimes(mic_rows)) - 1) : WrittenTimes(mic_rows)[i] <= WrittenTimes(mic_rows)[i + 1])


\* C15 as stated: in every state of a recording the number of samples
\* accepted into the buffer is at most expected_samples + RATE.
C15_CountWithinSlack == sample_count <= expected_samples + RATE

\* C15 amended: in every state of a recording the number of samples
\* accepted is less than expected_samples + RATE + CHUNK: a chunk is
\* accepted only when the count is below expected_samples + RATE, and the
\* count is the samples of the chunks in the buffer.
C15_CountWithinSlackAndChunk == sample_count < expected_samples + RATE + CHUNK /\ sample_count = TotalSamples(audio_buffer)

\* The callback has accepted the chunk that takes the count past
\* expected_samples + RATE, and has dropped the next one.
C15_Witness == sample_count > expected_samples + RATE /\ callbacks > Len(audio_buffer)


\* The process handles a subprocess-backed sensor can hold.
ProcessStates == {"None", "running"}

\* C16: in every state, calling an adapter's shutdown operation twice in
\* a row leaves, after the second call, the state the first call left, and
\* the second call makes no release call (task.close, camera.uninitialize,
\* system.ReleaseInstance, terminate, kill, join); and the state the
\* program's own shutdown left is not changed by a further call.
C16_ShutdownIdempotent ==
  /\ DaqClose(DaqClose(DaqState)) = DaqClose(DaqState)
  /\ DaqCloseReleases(DaqClose(DaqState)) = 0
  /\ Cleanup(Cleanup(FlirState)) = Cleanup(FlirState)
  /\ CleanupReleases(Cleanup(FlirState)) = 0
  /\ \A a, b \in BOOLEAN : StopRecording(StopRecording(lem_process, a).process, b) = [process |-> StopRecording(lem_process, a).process, calls |-> <<>>]
  /\ \A p \in ProcessStates : \A a, b \in BOOLEAN : XirisStopRecording(XirisStopRecording(p, a).process, b) = [process |-> XirisStopRecording(p, a).process, calls |-> <<>>]
  /\ MicStopRecording(MicStopRecording(is_recording).is_recording) = [is_recording |-> MicStopRecording(is_recording).is_recording, joins |-> FALSE]
  /\ ctl_pc = "done" => (DaqClose(DaqState) = DaqState /\ DaqCloseReleases(DaqState) = 0)
  /\ flir_pc = "done" => (Cleanup(FlirState) = FlirState /\ CleanupReleases(FlirState) = 0)

\* The run has ended after stop_collection closed an open DAQ task and
\* the LEM box process was stopped.
C16_Witness == ctl_pc = "done" /\ daq_task = "closed" /\ lem_events # <<>> /\ lem_process = "None"


\* The call sequences of a stop that terminates first, waits, and kills
\* only after the wait timed out.
OrderlyStops == {<<>>, <<"terminate", "wait_done">>, <<"terminate", "wait_timeout", "kill">>}

\* C17: the stop of a subprocess-backed sensor requests termination
\* first, then waits, and kills only if the wait timed out; no kill
\* precedes the terminate request; and once stop_recording has returned
\* the process handle is cleared.  For the LEM box in every run, and for
\* XirisCamera.stop_recording on every handle.
C17_TerminateWaitKill ==
  /\ lem_events \in OrderlyStops
  /\ (lem_pc = "done" /\ lem_events # <<>>) => lem_process = "None"
  /\ lem_process = "running" => lem_events = <<>>
  /\ \A p \in ProcessStates : \A inTime \in BOOLEAN : XirisStopRecording(p, inTime).calls \in OrderlyStops /\ XirisStopRecording(p, inTime).process = "None" /\ (p # "None" => XirisStopRecording(p, inTime).calls # <<>>)

\* The LEM box process did not end within the wait and was killed.
C17_Witness == lem_pc = "done" /\ lem_events = <<"terminate", "wait_timeout", "kill">> /\ lem_process = "None"


\* C18: a status report is emitted only by the wait loop, in a state where
\* is_collecting is true and some pipeline thread is alive; it is at least
\* status_interval (5 s) after the report before it; and none is emitted
\* once stop_collection has begun.
C18_ReportsOnlyWhileActive ==
  [][(reports' # reports) =>
       /\ ctl_pc = "wait"
       /\ ctl_pc' = "wait"
       /\ is_collecting
       /\ \E s \in Sensors : IsAlive(s)
       /\ reports' = Append(reports, now)
       /\ (reports # <<>>) => (now - reports[Len(reports)] >= status_interval * RATE)]_vars

\* Two reports were emitted.
C18_Witness == Len(reports) = 2 /\ reports[2] - reports[1] >= status_interval * RATE /\ ctl_pc = "wait"


\* C19: on an operator stop the completion report of stop_collection is
\* emitted only after the stop flag was set, every pipeline thread has
\* ended and each pipeline has finished its output: the robot rows are
\* saved, the record thread that saves the microphone file has ended, the
\* FLIR queue is drained, and the LEM box process is stopped.
C19_CompletionAfterDrain ==
  completion_reported =>
    /\ stop_flag
    /\ \A s \in started : ThreadPc(s) = "done"
    /\ robot_saved = raw_data
    /\ rec_pc \in {"none", "done"}
    /\ frame_queue = <<>>
    /\ lem_process = "None"


\* C20: a failed read writes no record and the loop continues; and when
\* the read failures are sustained (MaxFailures in a row), the
\* thermocouple pipeline stops itself: it does not poll again.
C20_SustainedFailuresStop ==
  /\ thermo_rows = thermo_reads
  /\ thermo_pc = "read" => thermo_failures < MaxFailures




\* The data rows of the thermocouple file.
DataRows(file) == SelectSeq(file, LAMBDA l : l.kind = "row")

\* The first record of the thermocouple file has relative time 0.
C21_ThermoFirstAtZero == DataRows(thermo_file) # <<>> => DataRows(thermo_file)[1].rel = 0

\* The first record of the robot data has elapsed time 0.
C21_RobotFirstAtZero == robot_elapsed # <<>> => robot_elapsed[1] = 0

\* C21: the relative time of every record is its capture time less the
\* capture time of the first record of the same stream, so the first
\* record of the thermocouple file, in any session of a process, and the
\* first record of the robot data have relative time 0.
C21_FirstRecordAtZero == C21_ThermoFirstAtZero /\ C21_RobotFirstAtZero



\* C22: whatever the number of records write_to_csv appended to the
\* thermocouple file, the header is its first line and its only header,
\* and the data rows follow in the order of the reads, one for each
\* successful read.
C22_HeaderOnceRowsInOrder ==
  thermo_file # <<>> =>
    /\ thermo_file[1] = HeaderRow
    /\ Len(thermo_file) = thermo_rows + 1
    /\ \A i \in 2..Len(thermo_file) : thermo_file[i].kind = "row" /\ thermo_file[i].read = i - 1

\* Two records were appended to the file.
C22_Witness == Len(thermo_file) = 4 /\ thermo_file[4].read = 3 /\ ctl_pc = "done"


\* C23: the DAQ task and the camera are each used by one thread only,
\* from initialization to release.
C23_OneThreadPerHandle == Cardinality(daq_users) <= 1 /\ Cardinality(camera_users) <= 1


\* The sensors that have an initialization step in initialize_sensors.
InitKinds == {"flir", "thermocouple", "microphone"}

\* initialize_sensors has run in this state.
InitRan == output_path = "dir" /\ ctl_pc \notin {"prepare", "init_sensors"}

\* C24 as stated: when an available sensor failed to initialize and some
\* other sensor is active, the controller has not aborted the run: it
\* proceeds to collection with the remaining sensors.
C24_ProceedsWithRemaining == (init_failed # {} /\ \E s \in Sensors : active_sensors[s] /\ s \notin init_failed) => ctl_pc # "prep_failed"

\* C24 amended: the initialization steps are independent, the run is not:
\* initialize_sensors runs the step of every available sensor that has
\* one, also after another step failed, and a step that succeeded leaves
\* its sensor initialized; but when any step failed the controller aborts
\* the run, whatever other sensors are active: no collection is started
\* with the remaining sensors.
C24_StepsIndependentRunAborts ==
  /\ InitRan => init_steps = {s \in InitKinds : active_sensors[s]}
  /\ (InitRan /\ ctl_pc = "prep_failed" /\ "flir" \in init_steps \ init_failed) => flir_is_initialized
  /\ (InitRan /\ ctl_pc = "prep_failed" /\ "thermocouple" \in init_steps \ init_failed) => daq_is_initialized
  /\ init_failed # {} => (ctl_pc = "prep_failed" /\ ~is_collecting /\ started = {} /\ threads = <<>>)

\* The camera failed to initialize, the step of the thermocouple DAQ ran
\* after it and succeeded, and the run was aborted.
C24_Witness == init_failed = {"flir"} /\ init_steps = {"flir", "thermocouple"} /\ daq_is_initialized /\ ctl_pc = "prep_failed"


\* C25: once stop_collection has completed on the object, the stop flag
\* stays set, is_collecting stays false and no pipeline thread is alive,
\* whatever is called on the object afterwards.
C25_StoppedIsTerminal == completion_reported => (stop_flag /\ ~is_collecting /\ threads = <<>> /\ \A s \in Sensors : ~IsAlive(s))


\* C29: while output_path is None (prepare_collection never ran),
\* start_collection changes nothing: is_collecting stays false and no
\* pipeline thread is created or started.
C29_UnpreparedStartRefused == output_path = "None" => (~is_collecting /\ threads = <<>> /\ started = {} /\ \A s \in Sensors : NoThread(s))


\* C27: when the FLIR pipeline thread has ended, the camera that was
\* acquiring has been released: cleanup called camera.uninitialize, once.
C27_CameraReleasedAtEnd == flir_pc = "done" => (camera = "released" /\ uninit_calls = 1)


\* C28: when prepare_collection has aborted because a sensor failed to
\* initialize, every sensor initialized in the same pass has been
\* released: the FLIR collector cleaned up, the DAQ task closed.
C28_AbortReleasesInitialized ==
  (ctl_pc = "prep_failed" /\ init_failed # {}) =>
    /\ "flir" \in init_steps \ init_failed => (~flir_is_initialized /\ flir_system = "None")
    /\ "thermocouple" \in init_steps \ init_failed => daq_task = "closed"


\* C30: when the FLIR camera is active and start_acquisition failed,
\* start_collection has returned with is_collecting false and no thread
\* created or started for any sensor; and whenever is_collecting is true
\* or a pipeline thread exists on a rig with the camera, the acquisition
\* was started before.
C30_AcquisitionBeforeCollecting ==
  /\ ctl_pc = "start_failed" => (IsActive("flir") /\ camera # "acquiring" /\ ~is_collecting /\ threads = <<>> /\ started = {} /\ \A s \in Sensors : NoThread(s))
  /\ (IsActive("flir") /\ (is_collecting \/ threads # <<>> \/ started # {})) => camera \in {"acquiring", "released"}

\* The acquisition failed to start on a rig with the camera and the
\* thermocouple, both initialized.
C30_Witness == ctl_pc = "start_failed" /\ IsActive("flir") /\ flir_is_initialized /\ IsActive("thermocouple") /\ daq_is_initialized


\* The threads inside a critical section of buffer_lock, and of frame_lock.
InBufferSection == (IF callback_time # <<>> THEN {"callback"} ELSE {}) \cup (IF rec_pc = "save" THEN {"record"} ELSE {})

InFrameSection == IF reader_pc = "slot" THEN {"reader"} ELSE {}

\* C26 (state part): a thread inside a critical section holds its lock, and
\* at most one thread is inside each critical section.
C26_SectionHoldsLock ==
  /\ Cardinality(InBufferSection) <= 1
  /\ Cardinality(InFrameSection) <= 1
  /\ \A who \in InBufferSection : buffer_lock = who
  /\ \A who \in InFrameSection : frame_lock = who
  /\ InBufferSection = {} => buffer_lock = "free"
  /\ InFrameSection = {} => frame_lock = "free"

\* C26 (step part): an append to the audio buffer is a step of the callback
\* holding buffer_lock, the snapshot read of _save_data is a step of the
\* recording thread holding buffer_lock, and a write of the latest-frame
\* slot is a step of the reader holding frame_lock.
C26_AccessUnderLock ==
  /\ Len(audio_buffer') > Len(audio_buffer) => buffer_lock = "callback"
  /\ (rec_pc = "save" /\ rec_pc' = "done") => buffer_lock = "record"
  /\ latest_frame' # latest_frame => frame_lock = "reader"

RECURSIVE SampleTimes(_)
\* chunk_timestamps, Microphone.py 132-134: the arrival time of its chunk,
\* for every sample of the chunks in order.
SampleTimes(chs) == IF chs = <<>> THEN <<>> ELSE [k \in 1..Head(chs).n |-> Head(chs).ts] \o SampleTimes(Tail(chs))

\* The smaller of two numbers.
Smaller(a, b) == IF a < b THEN a ELSE b

\* C31: when _save_data has run, the number of samples written is the
\* smaller of the number of samples accepted by the callback and
\* expected_samples, and the written samples are the first ones in
\* arrival order.
C31_WritesFirstSamples ==
  (rec_pc = "done" /\ stream = "closed") =>
    /\ mic_written = Smaller(sample_count, expected_samples)
    /\ sample_count = TotalSamples(audio_buffer)
    /\ SampleTimes(mic_rows) = SubSeq(SampleTimes(audio_buffer), 1, Smaller(sample_count, expected_samples))

\* A file written from two or more chunks, cut by the trim.
C31_Witness == rec_pc = "done" /\ mic_file = "written" /\ Len(audio_buffer) >= 2 /\ mic_written < sample_count /\ mic_written > audio_buffer[1].n


\* The step of collect_raw_data that leaves the loop on an error of
\* recvfrom: the loop ends although the stop flag is not set.
RecvErrorStep == robot_pc = "loop" /\ ~stop_flag /\ robot_pc' = "done"

\* C32: when recvfrom fails with an error other than a timeout the loop
\* ends, every data point received before is handed to save_to_csv and
\* the robot pipeline does not set the stop flag; a timeout neither ends
\* the loop nor adds a record.
C32_RecvErrorEndsLoopKeepsData ==
  [][/\ RecvErrorStep =>
          /\ raw_data' = raw_data
          /\ raw_data > 0 => robot_saved' = raw_data
          /\ stop_flag' = stop_flag
          /\ abort_requested' = abort_requested
     /\ robot_timeouts' > robot_timeouts =>
          /\ robot_pc' = "loop"
          /\ raw_data' = raw_data
          /\ robot_elapsed' = robot_elapsed
          /\ robot_saved' = robot_saved
          /\ stop_flag' = stop_flag]_vars

\* The loop went on after a timeout, received datagrams, and ended on an
\* error with the data saved and the stop flag clear.
C32_Witness == robot_pc = "done" /\ ~stop_flag /\ ~abort_requested /\ robot_timeouts > 0 /\ raw_data > 1 /\ robot_saved = raw_data


\* Every pipeline thread has terminated while the controller is in its
\* wait loop and is_collecting is still true.
IdleWhileCollecting == ctl_pc = "wait" /\ is_collecting /\ Len(threads) > 0 /\ AllTerminated

\* C33: if every pipeline thread has terminated on its own while
\* is_collecting is still true, the wait loop eventually ends without an
\* operator stop, and the status check made once the interval has elapsed
\* sets is_collecting to false.
C33_IdleLoopEnds ==
  /\ IdleWhileCollecting ~> (ctl_pc = "returned" /\ ~is_collecting)
  /\ [][(IdleWhileCollecting /\ now - last_status_time >= StatusTicks) => ~is_collecting']_vars

\* The robot thread ended on a receive error after a status report, the
\* interval elapsed again, and the wait loop ended.
C33_Witness == ctl_pc = "returned" /\ ~is_collecting /\ ~stop_flag /\ Len(reports) > 0 /\ now > reports[Len(reports)] /\ raw_data > 0


\* A step in which thermocouple_collection calls ThermocoupleDAQ.read, and
\* a step in which ThermocoupleDAQ.close closes the task.
ThermoReadStep == thermo_pc = "read" /\ thermo_pc' # "read"

DaqCloseStep == daq_task = "open" /\ daq_task' = "closed"

\* C34: the thermocouple DAQ task is closed only after the thermocouple
\* pipeline thread has terminated, and thermocouple_collection never calls
\* read on the DAQ after or during ThermocoupleDAQ.close.
C34_CloseAfterThermoThread ==
  [][/\ DaqCloseStep => thermo_pc \in {"none", "done"} /\ thermo_pc' = thermo_pc
     /\ ThermoReadStep => daq_task # "closed" /\ daq_task' = daq_task]_vars

\* The thermocouple thread has read and ended, and the DAQ was closed by
\* stop_collection.
C34_Witness == daq_task = "closed" /\ thermo_reads > 0 /\ thermo_pc = "done" /\ ctl_pc = "done"


\* C35: in the FLIR consumer frame_count is the number of frames persisted
\* so far, the persisted frames have the file indices 0, 1, 2, ... in the
\* order they were persisted, which is the order they left the queue; a
\* frame whose write failed has left the queue, has no file, left
\* frame_count unchanged and is not taken again.
C35_CountIsPersistedFrames ==
  /\ [](/\ frame_count = Len(flir_files)
        /\ flir_files = Without(taken, failed_writes)
        /\ \A i, j \in 1..Len(taken) : taken[i] = taken[j] => i = j
        /\ \A f \in failed_writes : f \in Range(taken) /\ f \notin Range(frame_queue))
  /\ [][failed_writes' # failed_writes => (frame_count' = frame_count /\ flir_files' = flir_files /\ frame_queue' = Tail(frame_queue))]_vars

\* A frame was persisted after the write of the frame before it failed.
C35_Witness == failed_writes = {1} /\ flir_files = <<2>> /\ frame_count = 1 /\ taken = <<1, 2>>


\* The state of the recorder that start_recording and stop_recording may
\* change.
RecorderState == <<rec_pc, is_recording, stream, audio_buffer, sample_count, expected_samples, last_callback_time, mic_file, mic_written, mic_rows>>

\* C36: start_recording called while a recording is in progress returns
\* False and changes nothing, so a record thread is created only when the
\* recorder has no live record thread; stop_recording called when not
\* recording returns False and changes nothing.
C36_RefusedCallsChangeNothing ==
  /\ [](last_return = <<"start_recording", TRUE>> => (is_recording \/ mic_pc = "stopping"))
  /\ [][/\ (mic_pc = "idle" /\ mic_pc' = "idle" /\ last_return' # last_return /\ is_recording) =>
             (last_return' = <<"start_recording", FALSE>> /\ RecorderState' = RecorderState)
        /\ (mic_pc = "idle" /\ last_return' = <<"stop_recording", FALSE>> /\ last_return' # last_return) =>
             (~is_recording /\ RecorderState' = RecorderState)
        /\ (rec_pc' = "open" /\ rec_pc # "open") => (~is_recording /\ rec_pc \in {"none", "done"})]_vars

\* start_recording was refused while the record thread of the recording in
\* progress was running with a chunk in the buffer.
C36_Witness == last_return = <<"start_recording", FALSE>> /\ rec_pc = "loop" /\ is_recording /\ audio_buffer # <<>>


\* The step in which a callback in progress returns.
CallbackReturns == callback_time # <<>> /\ callback_time' = <<>>

\* C37: when the callback refuses a chunk because the sample limit is
\* reached, the buffer and sample_count are unchanged and the recording is
\* not stopped (is_recording stays true, the stream stays active); a later
\* chunk is accepted once expected_samples has grown so that the count is
\* below the limit again.
C37_RefusalKeepsRecording ==
  [][/\ (CallbackReturns /\ sample_count >= expected_samples + RATE) =>
          /\ audio_buffer' = audio_buffer
          /\ sample_count' = sample_count
          /\ is_recording' = is_recording
          /\ stream' = stream
          /\ rec_pc' = rec_pc
     /\ (CallbackReturns /\ sample_count < expected_samples + RATE) =>
          /\ Len(audio_buffer') = Len(audio_buffer) + 1
          /\ sample_count' = sample_count + CHUNK]_vars

\* A chunk was refused, expected_samples has grown since, and the chunk of
\* the callback in progress is accepted: the recording goes on.
C37_Witness == callback_time # <<>> /\ callbacks = Len(audio_buffer) + 2 /\ expected_samples > 0 /\ sample_count > RATE /\ sample_count < expected_samples + RATE /\ is_recording /\ stream = "active"


\* C38: verify_sensors gives each of the five sensor kinds a boolean
\* availability; a probe that fails or raises makes its own sensor
\* unavailable and no other; the result is true (the run goes on) exactly
\* when some sensor is available; the microphone is available only when
\* the recorder object was constructed.
C38_ProbesIndependentAnyAvailable ==
  ctl_pc # "verify" =>
    /\ DOMAIN active_sensors = Sensors
    /\ Cardinality(Sensors) = 5
    /\ \A s \in Sensors : active_sensors[s] \in BOOLEAN
    /\ \A s \in Sensors : probes[s] \in {"fails", "raises"} => ~active_sensors[s]
    /\ \A s \in Sensors \ {"microphone", "lembox"} : probes[s] = "ok" => active_sensors[s]
    /\ active_sensors["microphone"] = (probes["microphone"] = "ok" /\ probes["recorder"] = "ok")
    /\ microphone_available = active_sensors["microphone"]
    /\ active_sensors["lembox"] = (probes["lembox"] = "ok" /\ probes["lembox_object"] = "ok")
    /\ ctl_pc = "no_sensors" <=> (\A s \in Sensors : ~active_sensors[s])

\* The robot probe raised, the microphone was found but its recorder could
\* not be built, the thermocouple probe failed, and the camera alone is
\* available: verify_sensors returned true.
C38_Witness == ctl_pc = "prepare" /\ probes["robot"] = "raises" /\ probes["microphone"] = "ok" /\ probes["recorder"] = "raises" /\ probes["thermocouple"] = "fails" /\ active_sensors = [s \in Sensors |-> s = "flir"]

=============================================================================
